---- MODULE Spec2Model ----
(***************************************************************************)
(* bumpx (src/src/bumpx.cpp): normal map + optional gloss and height maps  *)
(* -> "bump" and "bump#" BC3 textures.                                     *)
(*                                                                         *)
(* Two specifications share this module:                                   *)
(*   Spec    the driver (Main) on the shapes of its bitmaps: widths,       *)
(*           heights, pixel counts, payload sizes, the DDS header.         *)
(*   SpecPx  the same passes on the pixel values of small textures.        *)
(***************************************************************************)
EXTENDS Integers, Sequences, FiniteSets, TLC

\* ------------------------------------------------------------------ bounds

\* Spec: image sides are 2^0 .. 2^MaxLog (and the non powers of two below).
MaxLog == 8

\* SpecPx: the sides of the images with pixels are 4 .. 2^MaxLogPx.
MaxLogPx == 3

\* ------------------------------------------------------------- arithmetic

Max(a, b) == IF a > b THEN a ELSE b
Min(a, b) == IF a < b THEN a ELSE b

Pow2(k) == 2 ^ k

\* static const size_t kMinMipSize = 4;
kMinMipSize == 4

\* while (v >>= 1) ++result;
RECURSIVE Log2I_Ceil(_)
Log2I_Ceil(v) == IF v = 0 THEN 0 ELSE 1 + Log2I_Ceil(v \div 2)

RECURSIVE Log2I(_)
Log2I(v) == IF v \div 2 = 0 THEN 0 ELSE 1 + Log2I(v \div 2)

\* std::min(std::max(left, v), right)
Clamp(v, left, right) == Min(Max(left, v), right)

\* bitwise and of two naturals
RECURSIVE BitAnd(_, _)
BitAnd(a, b) ==
    IF a = 0 \/ b = 0 THEN 0
    ELSE (a % 2) * (b % 2) + 2 * BitAnd(a \div 2, b \div 2)

IsPowerOfTwo_NonZero(v) == v # 0

\* v != 0 && (v & (v - 1)) == 0
IsPowerOfTwo(v) == v # 0 /\ BitAnd(v, v - 1) = 0

\* ------------------------------------------------- Bitmap, Texture (shape)

\* Bitmap(w, h, value): width(w), height(h), pixels(w * h, value).
\* size is pixels.size(); data says whether the pixels hold an image (a loaded
\* or generated one) or only the constructor's fill value.
Bitmap(w, h) == [width |-> w, height |-> h, size |-> w * h, data |-> FALSE]

BitmapClear_PixelsOnly(b) == [b EXCEPT !.size = 0, !.data = FALSE]

\* void clear() { width = 0; height = 0; pixels.clear(); }
BitmapClear(b) == [width |-> 0, height |-> 0, size |-> 0, data |-> FALSE]

\* bool empty() const { return pixels.empty(); }
BitmapEmpty(b) == b.size = 0

\* mipW = std::max<size_t>(mipW / 2, kMinMipSize);
NextMipSide_NoFloor(s) == s \div 2

NextMipSide(s) == Max(s \div 2, kMinMipSize)

\* for (i = 0; i < numMips; ++i) { mips.push_back(BitmapType(mipW, mipH)); ... }
RECURSIVE TextureLoop(_, _, _, _, _)
TextureLoop(i, numMips, mipW, mipH, mips) ==
    IF i < numMips
    THEN TextureLoop(i + 1, numMips, NextMipSide(mipW), NextMipSide(mipH),
                     Append(mips, Bitmap(mipW, mipH)))
    ELSE mips

\* Texture(w, h): the mips vector; mips[i] of the code is Texture(w, h)[i + 1].
Texture(w, h) == TextureLoop(0, Log2I(Max(w, h)), w, h, <<>>)

\* ------------------------------------------------------------------ state

VARIABLES
    pc,                           \* where Main (or the pixel pipeline) stands
    input,                        \* the command line and the files it names
    normalmap, glossmap, heightmap,
    normalmapWithMips, glossmapWithMips, heightmapWithMips, bumpXWithMips,
    normalmapWithMipsCompressed, bumpXMipsCompressed,
    loopI,                        \* BuildMipchain's i
    calls,                        \* the MakeMip calls issued so far
    files,                        \* the files written so far
    exitCode,
    result                        \* SpecFn: what the function under test returned

vars == <<pc, input, normalmap, glossmap, heightmap,
          normalmapWithMips, glossmapWithMips, heightmapWithMips, bumpXWithMips,
          normalmapWithMipsCompressed, bumpXMipsCompressed,
          loopI, calls, files, exitCode, result>>

\* ------------------------------------------------------------------ inputs

\* Sides of the images on disk: the powers of two, and two that are not.
Sides == {Pow2(k) : k \in 0..MaxLog} \cup {3, 100}

\* -n: not given / names no regular file / not an image / an image.
NormalKinds == {"noarg", "nofile", "noimage", "image"}

\* The command lines of line 551: no argument at all, or -help as the first.
UsageKinds == {"bare", "help"}

\* -g, -h: the same, the image having the normal map's size or another one.
AuxKinds == {"noarg", "nofile", "noimage", "same", "differ"}

\* -q: not given, or an integer.
QualityArgs == {[given |-> FALSE, value |-> 0]}
                   \cup {[given |-> TRUE, value |-> v] : v \in -1..3}

\* w and h are the size of the normal map's image, 0 when there is none.
Inputs ==
    [n : {"image"}, w : Sides, h : Sides, g : AuxKinds, hm : AuxKinds,
     q : QualityArgs]
    \cup [n : NormalKinds \ {"image"}, w : {0}, h : {0}, g : AuxKinds,
          hm : AuxKinds, q : QualityArgs]
    \cup [n : {"help"}, w : {0}, h : {0}, g : AuxKinds,
          hm : AuxKinds, q : QualityArgs]
    \cup [n : {"bare"}, w : {0}, h : {0}, g : {"noarg"},
          hm : {"noarg"}, q : {[given |-> FALSE, value |-> 0]}]

\* LoadBitmap<T>(path): Bitmap(0, 0) when the file is no image, else its pixels.
LoadBitmap(isImage, w, h) ==
    IF isImage
    THEN [width |-> w, height |-> h, size |-> w * h, data |-> TRUE]
    ELSE Bitmap(0, 0)

Quality_DefaultZero(in) == IF in.q.given THEN in.q.value ELSE 0

\* const int quality = !paramQ.empty() ? std::stoi(paramQ) : 2;
Quality(in) == IF in.q.given THEN in.q.value ELSE 2

\* pathGlossmap / pathHeightmap after the checks of lines 621-639: empty unless
\* the parameter was given and names a regular file.
PathEmpty(kind) == kind \in {"noarg", "nofile"}

\* An auxiliary image as loaded: Bitmap(0, 1) for an empty path.
LoadAux(kind, w, h) ==
    IF PathEmpty(kind) THEN Bitmap(0, 1)
    ELSE IF kind = "noimage" THEN LoadBitmap(FALSE, 0, 0)
    ELSE IF kind = "same" THEN LoadBitmap(TRUE, w, h)
    ELSE LoadBitmap(TRUE, 2 * w, h)

CheckAux_Keep(aux, normal) == aux

\* if (aux.empty() && !aux.height) {...} else if (sizes differ) aux.clear();
CheckAux(aux, normal) ==
    IF BitmapEmpty(aux) /\ aux.height = 0 THEN aux
    ELSE IF aux.width # normal.width \/ aux.height # normal.height
         THEN BitmapClear(aux)
         ELSE aux

\* if (heightmap.empty()) heightmap = Bitmap<PixelMono>(w, h, { 128 });
DefaultHeight(hmap, normal) ==
    IF BitmapEmpty(hmap)
    THEN [width |-> normal.width, height |-> normal.height,
          size |-> normal.width * normal.height, data |-> TRUE]
    ELSE hmap

\* const size_t nwidth = normalmap.width; const size_t nheight = normalmap.height;
\* (read after the normal map was loaded and validated, before it is cleared)
nwidth == input.w

nheight == input.h

\* ------------------------------------------------------------ BuildMipchain

\* const int srcMip = std::max(0, i - 3);
SrcMip_Prev(i) == i - 1

SrcMip(i) == Max(0, i - 3)

\* MakeMip(src, dst): the resampler fills dst.pixels from src.pixels.
MakeMip(src, dst) == [dst EXCEPT !.data = TRUE]

\* One iteration of BuildMipchain's loop on texture `name`: the mips after it.
BuildMipchainIter(mips, i) ==
    [mips EXCEPT ![i + 1] = MakeMip(mips[SrcMip(i) + 1], mips[i + 1])]

MakeMipCall(name, mips, i) ==
    [tex |-> name, src |-> SrcMip(i), dst |-> i,
     srcData |-> mips[SrcMip(i) + 1].data]

\* mips[0] = bitmap;
AssignMip0(mips, bitmap) == [mips EXCEPT ![1] = bitmap]

\* ------------------------------------------------------------------- Main

NoTexture == <<>>

Init ==
    /\ pc = "args"
    /\ input \in Inputs
    /\ normalmap = Bitmap(0, 0)
    /\ glossmap = Bitmap(0, 0)
    /\ heightmap = Bitmap(0, 0)
    /\ normalmapWithMips = NoTexture
    /\ glossmapWithMips = NoTexture
    /\ heightmapWithMips = NoTexture
    /\ bumpXWithMips = NoTexture
    /\ normalmapWithMipsCompressed = <<>>
    /\ bumpXMipsCompressed = <<>>
    /\ loopI = 0
    /\ calls = <<>>
    /\ files = <<>>
    /\ exitCode = 0
    /\ result = <<>>

Exit(code) ==
    /\ pc' = "exit"
    /\ exitCode' = code

\* lines 551-552 and 841: no argument or -help prints the usage and returns 0;
\* lines 596-607: the normal map parameter and its path.
ParseArgs ==
    /\ pc = "args"
    /\ IF input.n \in UsageKinds
       THEN Exit(0)
       ELSE IF input.n \in {"noarg", "nofile"}
            THEN Exit(-1)
            ELSE pc' = "load_normal" /\ UNCHANGED exitCode
    /\ UNCHANGED <<input, normalmap, glossmap, heightmap,
                   normalmapWithMips, glossmapWithMips, heightmapWithMips,
                   bumpXWithMips, normalmapWithMipsCompressed,
                   bumpXMipsCompressed, loopI, calls, files, result>>

\* lines 641-648: load and validate the normal map.
LoadNormal ==
    /\ pc = "load_normal"
    /\ LET bmp == LoadBitmap(input.n = "image", input.w, input.h) IN
       /\ normalmap' = bmp
       /\ IF BitmapEmpty(bmp) THEN Exit(-1)
          ELSE IF ~IsPowerOfTwo(bmp.width) \/ ~IsPowerOfTwo(bmp.height)
               THEN Exit(-1)
               ELSE pc' = "load_aux" /\ UNCHANGED exitCode
    /\ UNCHANGED <<input, glossmap, heightmap,
                   normalmapWithMips, glossmapWithMips, heightmapWithMips,
                   bumpXWithMips, normalmapWithMipsCompressed,
                   bumpXMipsCompressed, loopI, calls, files, result>>

\* lines 650-651: the auxiliary maps as constructed or loaded.
LoadAuxMaps ==
    /\ pc = "load_aux"
    /\ glossmap' = LoadAux(input.g, input.w, input.h)
    /\ heightmap' = LoadAux(input.hm, input.w, input.h)
    /\ pc' = "check_aux"
    /\ UNCHANGED <<input, normalmap,
                   normalmapWithMips, glossmapWithMips, heightmapWithMips,
                   bumpXWithMips, normalmapWithMipsCompressed,
                   bumpXMipsCompressed, loopI, calls, files, exitCode, result>>

\* lines 653-674: the size checks, and the default height map.
CheckAuxMaps ==
    /\ pc = "check_aux"
    /\ glossmap' = CheckAux(glossmap, normalmap)
    /\ heightmap' = DefaultHeight(CheckAux(heightmap, normalmap), normalmap)
    /\ pc' = "tex_normal"
    /\ UNCHANGED <<input, normalmap,
                   normalmapWithMips, glossmapWithMips, heightmapWithMips,
                   bumpXWithMips, normalmapWithMipsCompressed,
                   bumpXMipsCompressed, loopI, calls, files, exitCode, result>>

\* lines 684-685: Texture<PixelRgba> normalmapWithMips(nwidth, nheight);
\* normalmapWithMips.mips[0] = normalmap; normalmap.clear();
\* mips[0] of an empty vector is out of bounds: undefined behaviour.
TexNormal ==
    /\ pc = "tex_normal"
    /\ LET t == Texture(nwidth, nheight) IN
       IF Len(t) = 0
       THEN /\ normalmapWithMips' = t
            /\ pc' = "undefined"
            /\ UNCHANGED normalmap
       ELSE /\ normalmapWithMips' = AssignMip0(t, normalmap)
            /\ normalmap' = BitmapClear(normalmap)
            /\ pc' = "mip_normal"
    /\ loopI' = 1
    /\ UNCHANGED <<input, glossmap, heightmap,
                   glossmapWithMips, heightmapWithMips,
                   bumpXWithMips, normalmapWithMipsCompressed,
                   bumpXMipsCompressed, calls, files, exitCode, result>>

\* line 686: BuildMipchain<PixelRgba, true>(normalmapWithMips), one iteration.
BuildMipchainNormal ==
    /\ pc = "mip_normal"
    /\ IF loopI < Len(normalmapWithMips)
       THEN /\ normalmapWithMips' = BuildMipchainIter(normalmapWithMips, loopI)
            /\ calls' = Append(calls, MakeMipCall("normal", normalmapWithMips, loopI))
            /\ loopI' = loopI + 1
            /\ pc' = pc
       ELSE /\ pc' = "tex_gloss"
            /\ UNCHANGED <<normalmapWithMips, calls, loopI>>
    /\ UNCHANGED <<input, normalmap, glossmap, heightmap,
                   glossmapWithMips, heightmapWithMips,
                   bumpXWithMips, normalmapWithMipsCompressed,
                   bumpXMipsCompressed, files, exitCode, result>>

\* lines 689-692: the gloss texture; mip 0 is assigned only when there is a map.
TexGloss ==
    /\ pc = "tex_gloss"
    /\ LET t == Texture(nwidth, nheight) IN
       IF ~BitmapEmpty(glossmap)
       THEN /\ glossmapWithMips' = AssignMip0(t, glossmap)
            /\ glossmap' = BitmapClear(glossmap)
            /\ pc' = "mip_gloss"
       ELSE /\ glossmapWithMips' = t
            /\ pc' = "tex_height"
            /\ UNCHANGED glossmap
    /\ loopI' = 1
    /\ UNCHANGED <<input, normalmap, heightmap,
                   normalmapWithMips, heightmapWithMips,
                   bumpXWithMips, normalmapWithMipsCompressed,
                   bumpXMipsCompressed, calls, files, exitCode, result>>

\* line 693: BuildMipchain<PixelMono, false>(glossmapWithMips), one iteration.
BuildMipchainGloss ==
    /\ pc = "mip_gloss"
    /\ IF loopI < Len(glossmapWithMips)
       THEN /\ glossmapWithMips' = BuildMipchainIter(glossmapWithMips, loopI)
            /\ calls' = Append(calls, MakeMipCall("gloss", glossmapWithMips, loopI))
            /\ loopI' = loopI + 1
            /\ pc' = pc
       ELSE /\ pc' = "tex_height"
            /\ UNCHANGED <<glossmapWithMips, calls, loopI>>
    /\ UNCHANGED <<input, normalmap, glossmap, heightmap,
                   normalmapWithMips, heightmapWithMips,
                   bumpXWithMips, normalmapWithMipsCompressed,
                   bumpXMipsCompressed, files, exitCode, result>>

\* lines 697-700: the height texture.
TexHeight ==
    /\ pc = "tex_height"
    /\ LET t == Texture(nwidth, nheight) IN
       IF ~BitmapEmpty(heightmap)
       THEN /\ heightmapWithMips' = AssignMip0(t, heightmap)
            /\ heightmap' = BitmapClear(heightmap)
            /\ pc' = "mip_height"
       ELSE /\ heightmapWithMips' = t
            /\ pc' = "assemble"
            /\ UNCHANGED heightmap
    /\ loopI' = 1
    /\ UNCHANGED <<input, normalmap, glossmap,
                   normalmapWithMips, glossmapWithMips,
                   bumpXWithMips, normalmapWithMipsCompressed,
                   bumpXMipsCompressed, calls, files, exitCode, result>>

\* line 701: BuildMipchain<PixelMono, false>(heightmapWithMips), one iteration.
BuildMipchainHeight ==
    /\ pc = "mip_height"
    /\ IF loopI < Len(heightmapWithMips)
       THEN /\ heightmapWithMips' = BuildMipchainIter(heightmapWithMips, loopI)
            /\ calls' = Append(calls, MakeMipCall("height", heightmapWithMips, loopI))
            /\ loopI' = loopI + 1
            /\ pc' = pc
       ELSE /\ pc' = "assemble"
            /\ UNCHANGED <<heightmapWithMips, calls, loopI>>
    /\ UNCHANGED <<input, normalmap, glossmap, heightmap,
                   normalmapWithMips, glossmapWithMips,
                   bumpXWithMips, normalmapWithMipsCompressed,
                   bumpXMipsCompressed, files, exitCode, result>>

\* ------------------------------------------------- encode, decode (shape)

\* switch (quality) { case 0: STB; case 1: Squish; case 2: default: RGBCX }
Encoder(quality) ==
    IF quality = 0 THEN "STB" ELSE IF quality = 1 THEN "Squish" ELSE "RGBCX"

\* const size_t compressedMipSize = ((w / 4) * (h / 4)) * 16;
CompressedMipSize(bmp) == ((bmp.width \div 4) * (bmp.height \div 4)) * 16

\* The block loops of CompressBC3_* and DecompressBC3_MY:
\* for (y = 0; y < height; y += 4) for (x = 0; x < width; x += 4)
BlocksVisited(bmp) == ((bmp.width + 3) \div 4) * ((bmp.height + 3) \div 4)

\* Each visited block copies 4 rows of 16 bytes starting at pixel (x, y) and
\* emits 16 bytes: inside the pixels and the payload only when both sides are
\* multiples of 4.
BlockLoopInBounds(bmp, payloadSize) ==
    /\ bmp.width % 4 = 0
    /\ bmp.height % 4 = 0
    /\ bmp.size = bmp.width * bmp.height
    /\ BlocksVisited(bmp) * 16 <= payloadSize

\* One compressed mip: the payload's size, the blocks emitted, the encoder.
CompressMip(bmp, quality) ==
    [size |-> CompressedMipSize(bmp), blocks |-> BlocksVisited(bmp),
     encoder |-> Encoder(quality)]

CompressAll(mips, quality) == [i \in 1..Len(mips) |-> CompressMip(mips[i], quality)]

CompressInBounds(mips) ==
    \A i \in 1..Len(mips) : BlockLoopInBounds(mips[i], CompressedMipSize(mips[i]))

\* std::transform(a.begin(), a.end(), b.begin(), out): reads |a| elements of b.
TransformInBounds(a, b) == a.size <= b.size

\* lines 707-725: assemble the bump pixels in place, every mip.
Assemble ==
    /\ pc = "assemble"
    /\ IF \A i \in 1..Len(normalmapWithMips) :
              TransformInBounds(normalmapWithMips[i], glossmapWithMips[i])
       THEN pc' = "compress"
       ELSE pc' = "undefined"
    /\ UNCHANGED <<input, normalmap, glossmap, heightmap,
                   normalmapWithMips, glossmapWithMips, heightmapWithMips,
                   bumpXWithMips, normalmapWithMipsCompressed,
                   bumpXMipsCompressed, loopI, calls, files, exitCode, result>>

\* lines 729-754: compress every bump mip.
Compress ==
    /\ pc = "compress"
    /\ IF CompressInBounds(normalmapWithMips)
       THEN /\ normalmapWithMipsCompressed' =
                   CompressAll(normalmapWithMips, Quality(input))
            /\ pc' = "residual"
       ELSE /\ pc' = "undefined"
            /\ UNCHANGED normalmapWithMipsCompressed
    /\ UNCHANGED <<input, normalmap, glossmap, heightmap,
                   normalmapWithMips, glossmapWithMips, heightmapWithMips,
                   bumpXWithMips, bumpXMipsCompressed,
                   loopI, calls, files, exitCode, result>>

\* DecompressBC3_MY(compressedMip.data(), bumpXMip) and the two transforms of
\* lines 769-789: bumpXMip holds the residual and the height afterwards.
ResidualMip(bumpXMip) == [bumpXMip EXCEPT !.data = TRUE]

Residual_BeforeCompress ==
    /\ pc = "compress"
    /\ bumpXWithMips' = Texture(nwidth, nheight)
    /\ pc' = "compress_x"
    /\ UNCHANGED <<input, normalmap, glossmap, heightmap,
                   normalmapWithMips, glossmapWithMips, heightmapWithMips,
                   normalmapWithMipsCompressed, bumpXMipsCompressed,
                   loopI, calls, files, exitCode, result>>

\* lines 758-792: decompress, take the error, move the height to alpha.
Residual ==
    /\ pc = "residual"
    /\ LET t == Texture(nwidth, nheight) IN
       IF \A i \in 1..Len(normalmapWithMips) :
              /\ i <= Len(t)
              /\ BlockLoopInBounds(t[i], normalmapWithMipsCompressed[i].size)
              /\ TransformInBounds(normalmapWithMips[i], t[i])
              /\ TransformInBounds(t[i], heightmapWithMips[i])
       THEN /\ bumpXWithMips' = [i \in 1..Len(t) |-> ResidualMip(t[i])]
            /\ pc' = "compress_x"
       ELSE /\ bumpXWithMips' = t
            /\ pc' = "undefined"
    /\ UNCHANGED <<input, normalmap, glossmap, heightmap,
                   normalmapWithMips, glossmapWithMips, heightmapWithMips,
                   normalmapWithMipsCompressed, bumpXMipsCompressed,
                   loopI, calls, files, exitCode, result>>

\* lines 795-820: compress every bump# mip.
CompressX ==
    /\ pc = "compress_x"
    /\ IF CompressInBounds(bumpXWithMips)
       THEN /\ bumpXMipsCompressed' = CompressAll(bumpXWithMips, Quality(input))
            /\ pc' = "save_bump"
       ELSE /\ pc' = "undefined"
            /\ UNCHANGED bumpXMipsCompressed
    /\ UNCHANGED <<input, normalmap, glossmap, heightmap,
                   normalmapWithMips, glossmapWithMips, heightmapWithMips,
                   bumpXWithMips, normalmapWithMipsCompressed,
                   loopI, calls, files, exitCode, result>>

\* ------------------------------------------------------------- SaveAsDDS

\* scast<uint32_t>(v): v mod 2^32, taken in 16-bit halves.
U32(v) == (v % 65536) + 65536 * ((v \div 65536) % 65536)

\* sizeof(DDSURFACEDESC2), sizeof(DDPIXELFORMAT), sizeof(kDDSFileSignature)
SizeofDDSURFACEDESC2 == 124

SizeofDDPIXELFORMAT == 32

SizeofSignature == 4

\* DDSURFACEDESC2 desc = {}; and the fields SaveAsDDS sets.
DDSHeader(compressedMips, w, h) ==
    [dwSize |-> SizeofDDSURFACEDESC2,
     dwFlags |-> 135175,                    \* 0x00021007
     dwHeight |-> U32(h),
     dwWidth |-> U32(w),
     dwMipMapCount |-> U32(Len(compressedMips)),
     ddpfSize |-> SizeofDDPIXELFORMAT,
     ddpfFlags |-> 4,                       \* 0x00000004
     ddpfFourCC |-> 894720068,              \* 0x35545844
     dwCaps |-> 4198400]                    \* 0x00401000

\* const uint32_t kDDSFileSignature = 0x20534444;
kDDSFileSignature == 542327876

\* The four bytes of a uint32_t in memory, on a little-endian machine.
BytesOfU32(v) ==
    <<v % 256, (v \div 256) % 256, (v \div 65536) % 256, (v \div 16777216) % 256>>

DescFields_WidthFirst(desc) ==
    <<desc.dwSize, desc.dwFlags, desc.dwWidth, desc.dwHeight, 0, 0,
      desc.dwMipMapCount, 0, 0, 0,
      0, 0, 0, 0, 0, 0, 0, 0,
      desc.ddpfSize, desc.ddpfFlags, desc.ddpfFourCC, 0, 0, 0, 0, 0,
      desc.dwCaps, 0, 0, 0,
      0>>

\* The uint32_t members of DDSURFACEDESC2 in declaration order: ten of its
\* own, four DDCOLORKEY of two, DDPIXELFORMAT of eight, DDSCAPS2 of four,
\* dwUnused1; all those SaveAsDDS does not set are 0 (desc = {}).
DescFields(desc) ==
    <<desc.dwSize, desc.dwFlags, desc.dwHeight, desc.dwWidth, 0, 0,
      desc.dwMipMapCount, 0, 0, 0,
      0, 0, 0, 0, 0, 0, 0, 0,
      desc.ddpfSize, desc.ddpfFlags, desc.ddpfFourCC, 0, 0, 0, 0, 0,
      desc.dwCaps, 0, 0, 0,
      0>>

\* file.write(&kDDSFileSignature, 4); file.write(&desc, sizeof(desc));
DDSHeaderBytes(desc) ==
    LET words == <<kDDSFileSignature>> \o DescFields(desc) IN
    [o \in 1..(4 * Len(words)) |->
        BytesOfU32(words[(o - 1) \div 4 + 1])[((o - 1) % 4) + 1]]

RECURSIVE SumSizes(_, _)
SumSizes(compressedMips, n) ==
    IF n = 0 THEN 0 ELSE compressedMips[n].size + SumSizes(compressedMips, n - 1)

\* The file SaveAsDDS leaves when the stream opened: signature, desc, the mips.
DDSFile(name, compressedMips, w, h) ==
    [name |-> name,
     header |-> DDSHeader(compressedMips, w, h),
     headerBytes |-> DDSHeaderBytes(DDSHeader(compressedMips, w, h)),
     payload |-> [i \in 1..Len(compressedMips) |-> compressedMips[i].size],
     length |-> SizeofSignature + SizeofDDSURFACEDESC2
                  + SumSizes(compressedMips, Len(compressedMips))]

\* file.write(...) x (2 + mips); file.flush(); file.close(); return true;
\* a write that fails leaves the stream bad and the later ones store nothing,
\* and no stream state is looked at after the open: the bytes that reached the
\* file end before the signature, before the desc, before the first mip, or
\* nowhere.
WriteOutcomes(file) ==
    {0, SizeofSignature, SizeofSignature + SizeofDDSURFACEDESC2, file.length}

\* The file as SaveAsDDS composed it, and how many of its bytes were stored.
Stored(file, n) ==
    [name |-> file.name, header |-> file.header, headerBytes |-> file.headerBytes,
     payload |-> file.payload, length |-> file.length, stored |-> n]

\* lines 826-831: SaveAsDDS(normalmapWithMipsCompressed, ...); the stream opens
\* or it does not (file.good()), and the writes are stored or not.
SaveBump ==
    /\ pc = "save_bump"
    /\ \E good \in BOOLEAN :
         IF good
         THEN /\ \E n \in WriteOutcomes(DDSFile("_bump.dds",
                              normalmapWithMipsCompressed, nwidth, nheight)) :
                     files' = Append(files,
                         Stored(DDSFile("_bump.dds", normalmapWithMipsCompressed,
                                        nwidth, nheight), n))
              /\ pc' = "save_bump_x"
              /\ UNCHANGED exitCode
         ELSE /\ Exit(-1)
              /\ UNCHANGED files
    /\ UNCHANGED <<input, normalmap, glossmap, heightmap,
                   normalmapWithMips, glossmapWithMips, heightmapWithMips,
                   bumpXWithMips, normalmapWithMipsCompressed,
                   bumpXMipsCompressed, loopI, calls, result>>

SaveBumpX_IgnoreFailure ==
    /\ pc = "save_bump_x"
    /\ Exit(0)
    /\ UNCHANGED <<input, normalmap, glossmap, heightmap,
                   normalmapWithMips, glossmapWithMips, heightmapWithMips,
                   bumpXWithMips, normalmapWithMipsCompressed,
                   bumpXMipsCompressed, loopI, calls, files, result>>

\* lines 833-841: SaveAsDDS(bumpXMipsCompressed, ...); return 0.
SaveBumpX ==
    /\ pc = "save_bump_x"
    /\ \E good \in BOOLEAN :
         IF good
         THEN /\ \E n \in WriteOutcomes(DDSFile("_bump#.dds",
                              bumpXMipsCompressed, nwidth, nheight)) :
                     files' = Append(files,
                         Stored(DDSFile("_bump#.dds", bumpXMipsCompressed,
                                        nwidth, nheight), n))
              /\ Exit(0)
         ELSE /\ Exit(-1)
              /\ UNCHANGED files
    /\ UNCHANGED <<input, normalmap, glossmap, heightmap,
                   normalmapWithMips, glossmapWithMips, heightmapWithMips,
                   bumpXWithMips, normalmapWithMipsCompressed,
                   bumpXMipsCompressed, loopI, calls, result>>

Next ==
    \/ ParseArgs
    \/ LoadNormal
    \/ LoadAuxMaps
    \/ CheckAuxMaps
    \/ TexNormal
    \/ BuildMipchainNormal
    \/ TexGloss
    \/ BuildMipchainGloss
    \/ TexHeight
    \/ BuildMipchainHeight
    \/ Assemble
    \/ Compress
    \/ Residual
    \/ CompressX
    \/ SaveBump
    \/ SaveBumpX

Spec == Init /\ [][Next]_vars

\* ----------------------------------------------------------------- pixels

\* PixelRgba is [r, g, b, a], PixelMono is [r]; every channel a uint8_t.
Byte == 0..255

\* scast<uint8_t>(v) of an int
U8(v) == v % 256

ConvertPixel_RgbToMono_Rounded(src) ==
    [r |-> (((src.r * 2) + ((src.g * 4) + src.g) + src.b + 4) \div 8) % 256]

\* ConvertPixel<PixelRgb, PixelMono>: l = (r << 1) + ((g << 2) + g) + b,
\* scast<uint8_t>((l >> 3) & 0xFF)
ConvertPixel_RgbToMono(src) ==
    [r |-> (((src.r * 2) + ((src.g * 4) + src.g) + src.b) \div 8) % 256]

\* ConvertPixel<PixelRgba, PixelMono>
ConvertPixel_RgbaToMono(src) ==
    [r |-> (((src.r * 2) + ((src.g * 4) + src.g) + src.b) \div 8) % 256]

\* ConvertPixel<PixelMono, PixelRgb>
ConvertPixel_MonoToRgb(src) == [r |-> src.r, g |-> src.r, b |-> src.r]

\* ConvertPixel<PixelMono, PixelRgba>
ConvertPixel_MonoToRgba(src) == [r |-> src.r, g |-> src.r, b |-> src.r, a |-> 255]

\* ConvertPixel<PixelRgba, PixelRgb>
ConvertPixel_RgbaToRgb(src) == [r |-> src.r, g |-> src.g, b |-> src.b]

ConvertPixel_RgbToRgba_ZeroAlpha(src) ==
    [r |-> src.r, g |-> src.g, b |-> src.b, a |-> 0]

\* ConvertPixel<PixelRgb, PixelRgba>
ConvertPixel_RgbToRgba(src) == [r |-> src.r, g |-> src.g, b |-> src.b, a |-> 255]

\* floor(sqrt(n)) for 0 <= n <= 65025
FloorSqrt(n) == CHOOSE s \in 0..255 : s * s <= n /\ n < (s + 1) * (s + 1)

\* The nearest integer to sqrt(n): s = 0 or (2s - 1)^2 <= 4n, and 4n < (2s + 1)^2.
RoundSqrt(n) ==
    CHOOSE s \in 0..255 :
        /\ s = 0 \/ (2 * s - 1) * (2 * s - 1) <= 4 * n
        /\ 4 * n < (2 * s + 1) * (2 * s + 1)

GlossCurve_Round(g) == U8(RoundSqrt(255 * g))

\* scast<uint8_t>(std::sqrt(scast<float>(gp.r) / 255.0f) * 255.0f):
\* sqrt(g / 255) * 255 = sqrt(255 * g), and the conversion to uint8_t truncates.
\* (The float expression yields this value for each of the 256 bytes.)
GlossCurve(g) == U8(FloorSqrt(255 * g))

\* lines 714-724: [linearGloss](np, gp) -> PixelRgba
AssemblePixel(np, gp, linearGloss) ==
    [r |-> IF linearGloss THEN gp.r ELSE GlossCurve(gp.r),
     g |-> np.b,
     b |-> np.g,
     a |-> np.r]

Clamp_None(v, left, right) == v

\* scast<uint8_t>(Clamp((scast<int>(n) - scast<int>(d)) * 2 + 128, 0, 255))
ErrorChannel_Wrap(n, d) == U8(Clamp_None((n - d) * 2 + 128, 0, 255))

ErrorChannel(n, d) == U8(Clamp((n - d) * 2 + 128, 0, 255))

ErrorPixel_Straight(np, dp) ==
    [r |-> ErrorChannel(np.r, dp.r),
     g |-> ErrorChannel(np.g, dp.g),
     b |-> ErrorChannel(np.b, dp.b),
     a |-> 0]

\* lines 773-780: [](np, dp) -> PixelRgba
ErrorPixel(np, dp) ==
    [r |-> ErrorChannel(np.a, dp.a),
     g |-> ErrorChannel(np.b, dp.b),
     b |-> ErrorChannel(np.g, dp.g),
     a |-> 0]

HeightPixel_KeepAlpha(xp, hp) == xp

\* lines 787-789: [](xp, hp) -> PixelRgba
HeightPixel(xp, hp) == [r |-> xp.r, g |-> xp.g, b |-> xp.b, a |-> hp.r]

\* ------------------------------------------- SpecFn: the pixel functions
\* Each function on inputs drawn from its whole domain.

mainVars == <<normalmap, glossmap, heightmap,
              normalmapWithMips, glossmapWithMips, heightmapWithMips,
              bumpXWithMips, normalmapWithMipsCompressed, bumpXMipsCompressed,
              loopI, calls, files, exitCode>>

MainIdle ==
    /\ normalmap = Bitmap(0, 0)
    /\ glossmap = Bitmap(0, 0)
    /\ heightmap = Bitmap(0, 0)
    /\ normalmapWithMips = NoTexture
    /\ glossmapWithMips = NoTexture
    /\ heightmapWithMips = NoTexture
    /\ bumpXWithMips = NoTexture
    /\ normalmapWithMipsCompressed = <<>>
    /\ bumpXMipsCompressed = <<>>
    /\ loopI = 0
    /\ calls = <<>>
    /\ files = <<>>
    /\ exitCode = 0

\* An RGBA pixel whose four channels differ, one for every byte x.
FnPixel(x) ==
    [r |-> x, g |-> (x + 64) % 256, b |-> (x + 128) % 256, a |-> (x + 192) % 256]

AssembleInputs ==
    {[op |-> "assemble", np |-> FnPixel(x), gp |-> [r |-> g], linearGloss |-> l] :
        g \in Byte, l \in BOOLEAN, x \in {0, 37, 255}}

\* Every pair of bytes meets in every channel.
ResidualInputs ==
    {[op |-> "residual", np |-> FnPixel(x), dp |-> FnPixel(y),
      hp |-> [r |-> (x + 2 * y) % 256]] : x \in Byte, y \in Byte}

\* the lambda of lines 714-724 on one pixel pair
FnAssemble ==
    /\ pc = "fn"
    /\ input.op = "assemble"
    /\ result' = AssemblePixel(input.np, input.gp, input.linearGloss)
    /\ pc' = "fn_done"
    /\ UNCHANGED <<input, mainVars>>

\* the lambdas of lines 773-780 and 787-789 on one pixel
FnResidual ==
    /\ pc = "fn"
    /\ input.op = "residual"
    /\ result' = HeightPixel(ErrorPixel(input.np, input.dp), input.hp)
    /\ pc' = "fn_done"
    /\ UNCHANGED <<input, mainVars>>

\* ------------------------------------------- bitmaps with their pixels

\* Bitmap(w, h, value) with its pixels: pixels[k + 1] is pixels[k] of the code.
BitmapPx(w, h, value) ==
    [width |-> w, height |-> h, pixels |-> [k \in 1..(w * h) |-> value]]

\* void clear() { width = 0; height = 0; pixels.clear(); }
ClearPx(b) == [width |-> 0, height |-> 0, pixels |-> <<>>]

\* bool empty() const { return pixels.empty(); }
EmptyPx(b) == Len(b.pixels) = 0

\* PixelRgba {0}, PixelMono {0}, PixelMono {128}
ZeroRgba == [r |-> 0, g |-> 0, b |-> 0, a |-> 0]

ZeroMono == [r |-> 0]

\* Texture<T>(w, h): every mip Bitmap(mipW, mipH), filled with T {0}.
TexturePx(w, h, zero) ==
    [i \in 1..Len(Texture(w, h)) |->
        BitmapPx(Texture(w, h)[i].width, Texture(w, h)[i].height, zero)]

\* if (aux.empty() && !aux.height) {...} else if (sizes differ) aux.clear();
CheckAuxPx_NoClear(aux, normal) == aux

CheckAuxPx(aux, normal) ==
    IF EmptyPx(aux) /\ aux.height = 0 THEN aux
    ELSE IF aux.width # normal.width \/ aux.height # normal.height
         THEN ClearPx(aux)
         ELSE aux

DefaultHeightPx_None(hmap, normal) == hmap

\* if (heightmap.empty()) heightmap = Bitmap<PixelMono>(w, h, { 128 });
DefaultHeightPx(hmap, normal) ==
    IF EmptyPx(hmap) THEN BitmapPx(normal.width, normal.height, [r |-> 128])
    ELSE hmap

\* -------------------------------------------------------------- MakeMip

\* stbir_resize_uint8 (stb_image_resize.h, not part of the sources): a
\* resampler from sw x sh to dw x dh pixels of the same layout. Two stand-ins:
\* "point" takes the first source pixel under each destination pixel, "mean"
\* the channel-wise mean of the first and the last one.
SrcIndex(x, y, sw) == y * sw + x + 1

ResamplePixel(rs, src, x, y, dw, dh) ==
    LET x0 == (x * src.width) \div dw
        y0 == (y * src.height) \div dh
        x1 == Max(x0, ((x + 1) * src.width) \div dw - 1)
        y1 == Max(y0, ((y + 1) * src.height) \div dh - 1)
        p == src.pixels[SrcIndex(x0, y0, src.width)]
        q == src.pixels[SrcIndex(x1, y1, src.width)]
    IN  IF rs = "point" THEN p
        ELSE [c \in DOMAIN p |-> (p[c] + q[c] + 1) \div 2]

Resample(rs, src, dw, dh) ==
    [k \in 1..(dw * dh) |->
        ResamplePixel(rs, src, (k - 1) % dw, (k - 1) \div dw, dw, dh)]

\* a * b <= c * d for a, c <= 65536 and b, d < 2^18, without leaving 32 bits:
\* the products are compared as (high, low) pairs in base 2^15.
ProdLeq(a, b, c, d) ==
    LET ProdHi(u, v) == u * (v \div 32768) + (u * (v % 32768)) \div 32768
        ProdLo(u, v) == (u * (v % 32768)) % 32768
    IN  \/ ProdHi(a, b) < ProdHi(c, d)
        \/ ProdHi(a, b) = ProdHi(c, d) /\ ProdLo(a, b) <= ProdLo(c, d)

\* floor(255 * n / sqrt(S)) for 0 <= n, n * n <= S
\* by bisection: lo * lo * S <= (255 n)^2 < hi * hi * S throughout
RECURSIVE InvLenBetween(_, _, _, _)
InvLenBetween(lo, hi, n, S) ==
    IF hi = lo + 1 THEN lo
    ELSE LET mid == (lo + hi) \div 2 IN
         IF ProdLeq(mid * mid, S, 255 * n, 255 * n)
         THEN InvLenBetween(mid, hi, n, S)
         ELSE InvLenBetween(lo, mid, n, S)

ScaledInvLen(n, S) == InvLenBetween(0, 256, n, S)

\* One channel of lines 289-299. With X = 2p - 255 (x = X / 255) and
\* S = X^2 + Y^2 + Z^2, (x * il * 0.5 + 0.5) * 255 is (255 X / sqrt(S) + 255) / 2;
\* the conversion to uint8_t truncates. The float rounding of the code is not
\* modelled: this is the value in exact arithmetic. S >= 3, X being odd.
NormalizeChannel(X, S) ==
    LET m == IF X > 0 THEN ScaledInvLen(X, S) ELSE -(ScaledInvLen(-X, S) + 1)
    IN  U8(Clamp((m + 255) \div 2, 0, 255))

Unpacked_Even(c) == 2 * c - 256

\* Clamp(scast<float>(c) / 255.0f, 0.0f, 1.0f) * 2.0f - 1.0f, times 255:
\* x = (2c - 255) / 255.
Unpacked(c) == 2 * c - 255

\* x * x + y * y + z * z, times 255^2: what std::sqrt is given, and 1.0f is
\* divided by the root of.
LengthSquared(p) ==
    Unpacked(p.r) * Unpacked(p.r) + Unpacked(p.g) * Unpacked(p.g)
        + Unpacked(p.b) * Unpacked(p.b)

\* T result = { 0 }; result.r = ...; result.g = ...; result.b = ...;
NormalizePixel_KeepAlpha(p) ==
    LET X == 2 * p.r - 255
        Y == 2 * p.g - 255
        Z == 2 * p.b - 255
        S == X * X + Y * Y + Z * Z
    IN  [r |-> NormalizeChannel(X, S), g |-> NormalizeChannel(Y, S),
         b |-> NormalizeChannel(Z, S), a |-> p.a]

NormalizePixel(p) ==
    LET X == Unpacked(p.r)
        Y == Unpacked(p.g)
        Z == Unpacked(p.b)
        S == LengthSquared(p)
    IN  [r |-> NormalizeChannel(X, S), g |-> NormalizeChannel(Y, S),
         b |-> NormalizeChannel(Z, S), a |-> 0]

\* MakeMip<T, normalize>(src, dst): resize into dst.pixels, then renormalize
\* when normalize && BytesPerPixel<T>() >= 3.
MakeMipPx(src, dst, normalize, rs) ==
    LET resized == Resample(rs, src, dst.width, dst.height) IN
    [dst EXCEPT !.pixels =
        IF normalize THEN [k \in 1..Len(resized) |-> NormalizePixel(resized[k])]
        ELSE resized]

\* BuildMipchain<T, isNormalmap>(texture): for (i = 1; i < numMips; ++i)
RECURSIVE BuildMipchainLoop(_, _, _, _)
BuildMipchainLoop(mips, i, normalize, rs) ==
    IF i < Len(mips)
    THEN BuildMipchainLoop(
             [mips EXCEPT ![i + 1] =
                 MakeMipPx(mips[SrcMip(i) + 1], mips[i + 1], normalize, rs)],
             i + 1, normalize, rs)
    ELSE mips

BuildMipchainPx(mips, normalize, rs) == BuildMipchainLoop(mips, 1, normalize, rs)

\* ------------------------------------------------------ assemble (pixels)

\* std::transform(normal.begin(), normal.end(), gloss.begin(), normal.begin(), f):
\* element k is read, f applied, and the result written over element k.
AssembleStep_ReadPrev(pixels, gpixels, k, linearGloss) ==
    [pixels EXCEPT ![k] =
        AssemblePixel(pixels[Max(k - 1, 1)], gpixels[k], linearGloss)]

AssembleStep(pixels, gpixels, k, linearGloss) ==
    [pixels EXCEPT ![k] = AssemblePixel(pixels[k], gpixels[k], linearGloss)]

\* The steps for the elements first .. last, in that order (the range is
\* halved only to keep the evaluation shallow).
RECURSIVE AssembleLoop(_, _, _, _, _)
AssembleLoop(pixels, gpixels, first, last, linearGloss) ==
    IF first > last \/ last > Len(pixels) THEN pixels
    ELSE IF first = last THEN AssembleStep(pixels, gpixels, first, linearGloss)
    ELSE LET mid == (first + last) \div 2 IN
         AssembleLoop(AssembleLoop(pixels, gpixels, first, mid, linearGloss),
                      gpixels, mid + 1, last, linearGloss)

\* lines 707-725, one mip
AssembleMip(normalMip, glossMip, linearGloss) ==
    [normalMip EXCEPT !.pixels =
        AssembleLoop(normalMip.pixels, glossMip.pixels, 1,
                     Len(normalMip.pixels), linearGloss)]

\* ------------------------------------------------------------ BC3 decode
\* Memory is a sequence of bytes; the byte at offset o is mem[o + 1].

\* uint8_t* dest = rcast<uint8_t*>(output.pixels.data())
BytesOf(pixels) ==
    [o \in 1..(4 * Len(pixels)) |->
        LET p == pixels[(o - 1) \div 4 + 1] IN
        CASE (o - 1) % 4 = 0 -> p.r
          [] (o - 1) % 4 = 1 -> p.g
          [] (o - 1) % 4 = 2 -> p.b
          [] OTHER -> p.a]

PixelsOf(mem) ==
    [k \in 1..(Len(mem) \div 4) |->
        [r |-> mem[4 * k - 3], g |-> mem[4 * k - 2],
         b |-> mem[4 * k - 1], a |-> mem[4 * k]]]

\* *(dest + off) = v
Store(mem, off, v) == [mem EXCEPT ![off + 1] = v]

\* The bits of `bytes`, least significant first: *rcast<const uint64_t*>(src)
\* on a little-endian machine.
BitsOf(bytes) ==
    [t \in 1..(8 * Len(bytes)) |->
        (bytes[(t - 1) \div 8 + 1] \div (2 ^ ((t - 1) % 8))) % 2]

\* (alpha >> pos) & 0x7, alpha a uint64_t holding `bits`
Low3(bits, pos) ==
    LET bit(t) == IF t <= Len(bits) THEN bits[t] ELSE 0
    IN  bit(pos + 1) + 2 * bit(pos + 2) + 4 * bit(pos + 3)

AlphaValue_EightStep(a0, a1, k) ==
    IF k = 0 THEN a0
    ELSE IF k = 1 THEN a1
    ELSE U8(((8 - k) * a0 + (k - 1) * a1) \div 7)

\* lines 429-439: the alpha for index k
AlphaValue(a0, a1, k) ==
    IF k = 0 THEN a0
    ELSE IF k = 1 THEN a1
    ELSE IF a0 > a1 THEN U8(((8 - k) * a0 + (k - 1) * a1) \div 7)
    ELSE IF k >= 6 THEN (IF k = 6 THEN 0 ELSE 255)
    ELSE U8(((6 - k) * a0 + (k - 1) * a1) \div 5)

RowSkip_None(w) == 0

\* if (w < 4) alpha >>= (3 * (4 - w)): the bits skipped after a row
RowSkip(w) == IF w < 4 THEN 3 * (4 - w) ELSE 0

\* lines 425-447: rows y .. h - 1, pixels x .. w - 1 of row y; pos is the
\* number of bits `alpha` has been shifted by so far. (A store past the end of
\* the memory would be undefined; the callers here never make one.)
RECURSIVE AlphaLoop(_, _, _, _, _, _, _, _, _, _, _)
AlphaLoop(mem, dest, w, h, xOff, yOff, a0, a1, bits, pos, xy) ==
    LET x == xy[1]
        y == xy[2]
        dst == dest + yOff * y + xOff * x
    IN  IF y >= h THEN mem
        ELSE IF x < w /\ dst >= Len(mem) THEN mem
        ELSE IF x < w
        THEN AlphaLoop(Store(mem, dst, AlphaValue(a0, a1, Low3(bits, pos))),
                       dest, w, h, xOff, yOff, a0, a1, bits, pos + 3, <<x + 1, y>>)
        ELSE AlphaLoop(mem, dest, w, h, xOff, yOff, a0, a1, bits,
                       pos + RowSkip(w), <<0, y + 1>>)

\* DecodeBC3AlphaBlock(dest, w, h, xOff, yOff, src): src is 8 bytes.
DecodeBC3AlphaBlock(mem, dest, w, h, xOff, yOff, src) ==
    AlphaLoop(mem, dest, w, h, xOff, yOff, src[1], src[2],
              SubSeq(BitsOf(src), 17, 64), 0, <<0, 0>>)

BlockColors_PunchThrough(isBC3, src) ==
    LET c0 == src[1] + 256 * src[2]
        c1 == src[3] + 256 * src[4]
        e0 == <<U8(((c0 \div 2048) % 32) * 8), U8(((c0 \div 32) % 64) * 4),
                U8((c0 % 32) * 8)>>
        e1 == <<U8(((c1 \div 2048) % 32) * 8), U8(((c1 \div 32) % 64) * 4),
                U8((c1 % 32) * 8)>>
    IN  IF c0 > c1
        THEN <<e0, e1,
               [i \in 1..3 |-> U8((2 * e0[i] + e1[i] + 1) \div 3)],
               [i \in 1..3 |-> U8((e0[i] + 2 * e1[i] + 1) \div 3)]>>
        ELSE <<e0, e1,
               [i \in 1..3 |-> U8((e0[i] + e1[i] + 1) \div 2)],
               <<0, 0, 0>>>>

\* lines 379-402: the four colours, each <<r, g, b>>
BlockColors(isBC3, src) ==
    LET c0 == src[1] + 256 * src[2]
        c1 == src[3] + 256 * src[4]
        e0 == <<U8(((c0 \div 2048) % 32) * 8), U8(((c0 \div 32) % 64) * 4),
                U8((c0 % 32) * 8)>>
        e1 == <<U8(((c1 \div 2048) % 32) * 8), U8(((c1 \div 32) % 64) * 4),
                U8((c1 % 32) * 8)>>
    IN  IF c0 > c1 \/ isBC3
        THEN <<e0, e1,
               [i \in 1..3 |-> U8((2 * e0[i] + e1[i] + 1) \div 3)],
               [i \in 1..3 |-> U8((e0[i] + 2 * e1[i] + 1) \div 3)]>>
        ELSE <<e0, e1,
               [i \in 1..3 |-> U8((e0[i] + e1[i] + 1) \div 2)],
               <<0, 0, 0>>>>

\* lines 405-417: rows y .. h - 1, pixels x .. w - 1 of row y
RECURSIVE ColorLoop(_, _, _, _, _, _, _, _, _)
ColorLoop(mem, dest, w, h, xOff, yOff, colors, src, xy) ==
    LET x == xy[1]
        y == xy[2]
        dst == dest + yOff * y + xOff * x
    IN  IF y >= h THEN mem
        ELSE IF x < w /\ dst + 2 >= Len(mem) THEN mem
        ELSE IF x < w
        THEN LET index == (src[5 + y] \div (4 ^ x)) % 4
             IN  ColorLoop(Store(Store(Store(mem, dst, colors[index + 1][1]),
                                       dst + 1, colors[index + 1][2]),
                                 dst + 2, colors[index + 1][3]),
                           dest, w, h, xOff, yOff, colors, src, <<x + 1, y>>)
        ELSE ColorLoop(mem, dest, w, h, xOff, yOff, colors, src, <<0, y + 1>>)

\* DecodeBCColorBlock<isBC3>(dest, w, h, xOff, yOff, src): src is 8 bytes.
DecodeBCColorBlock(isBC3, mem, dest, w, h, xOff, yOff, src) ==
    ColorLoop(mem, dest, w, h, xOff, yOff, BlockColors(isBC3, src), src, <<0, 0>>)

\* lines 454-464: blocks from (x, y) on, src the offset of the next block
BlockDest_Transposed(width, x, y) == (x * width + y) * 4

\* uint8_t* dst = dest + (y * output.width + x) * 4;
BlockDest(width, x, y) == (y * width + x) * 4

RECURSIVE DecompressLoop(_, _, _, _, _, _)
DecompressLoop(mem, blocks, width, height, src, xy) ==
    LET x == xy[1]
        y == xy[2]
        dst == BlockDest(width, x, y)
    IN  IF y >= height THEN mem
        ELSE IF x < width /\ dst >= Len(mem) THEN mem
        ELSE IF x < width
        THEN DecompressLoop(
                 DecodeBCColorBlock(TRUE,
                     DecodeBC3AlphaBlock(mem, dst + 3, 4, 4, 4, width * 4,
                                         SubSeq(blocks, src + 1, src + 8)),
                     dst, 4, 4, 4, width * 4,
                     SubSeq(blocks, src + 9, src + 16)),
                 blocks, width, height, src + 16, <<x + 4, y>>)
        ELSE DecompressLoop(mem, blocks, width, height, src, <<0, y + 4>>)

\* DecompressBC3_MY(inputBlocks, output): the output bitmap afterwards.
DecompressBC3_MY(inputBlocks, output) ==
    [output EXCEPT !.pixels =
        PixelsOf(DecompressLoop(BytesOf(output.pixels), inputBlocks,
                                output.width, output.height, 0, <<0, 0>>))]

\* The stores of DecodeBC3AlphaBlock in the order it makes them (lines 425-442:
\* dst = dest + yOff * y, then *dst = ..., dst += xOff for each x), each with
\* the offset `from` of the sub-block it decodes.
AlphaStores(dest, w, h, xOff, yOff, from) ==
    [n \in 1..(w * h) |->
        [off |-> dest + yOff * ((n - 1) \div w) + xOff * ((n - 1) % w),
         from |-> from]]

\* The stores of DecodeBCColorBlock (lines 405-416): dst[0], dst[1], dst[2] for
\* each pixel.
ColorStores(dest, w, h, xOff, yOff, from) ==
    [n \in 1..(3 * w * h) |->
        LET px == (n - 1) \div 3 IN
        [off |-> dest + yOff * (px \div w) + xOff * (px % w) + ((n - 1) % 3),
         from |-> from]]

\* lines 454-464 again, keeping the stores made and the value of src (the
\* bytes consumed) instead of the bytes stored.
RECURSIVE DecompressTrace(_, _, _, _, _)
DecompressTrace(stores, width, height, src, xy) ==
    LET x == xy[1]
        y == xy[2]
        dst == BlockDest(width, x, y)
    IN  IF y >= height THEN [stores |-> stores, consumed |-> src]
        ELSE IF x < width
        THEN DecompressTrace(
                 stores \o AlphaStores(dst + 3, 4, 4, 4, width * 4, src)
                        \o ColorStores(dst, 4, 4, 4, width * 4, src + 8),
                 width, height, src + 16, <<x + 4, y>>)
        ELSE DecompressTrace(stores, width, height, src, <<0, y + 4>>)

\* ------------------------------------------------------------ BC3 encode

\* lines 323-327: the 16 pixels of the block at (x, y), row by row
GatherBlock(bmp, x, y) ==
    [j \in 1..16 |->
        bmp.pixels[(y + (j - 1) \div 4) * bmp.width + x + ((j - 1) % 4) + 1]]

\* The block encoders (stb_dxt.h, squish, rgbcx.h) are not part of the sources.
\* Three stand-ins, each returning a 16-byte BC3 block for 16 pixels:
\*   STB     both endpoints from the first pixel, every index 0;
\*   Squish  endpoints from the extreme pixels (a0 >= a1), indices 0 / 1;
\*   RGBCX   the same endpoints in the other order (a0 <= a1), alpha 0 and 255
\*           through the indices 6 and 7.
To565(p) == (p.r \div 8) * 2048 + (p.g \div 4) * 32 + (p.b \div 8)

MaxOver(px, ch) == CHOOSE v \in {px[j][ch] : j \in 1..16} :
                       \A j \in 1..16 : px[j][ch] <= v

MinOver(px, ch) == CHOOSE v \in {px[j][ch] : j \in 1..16} :
                       \A j \in 1..16 : px[j][ch] >= v

FirstWith(px, ch, v) == px[CHOOSE j \in 1..16 :
                              px[j][ch] = v /\ \A i \in 1..(j - 1) : px[i][ch] # v]

Dist(a, b) == IF a > b THEN a - b ELSE b - a

\* 0 when v is at least as near to e0 as to e1, else 1
Nearest(v, e0, e1) == IF Dist(v, e0) <= Dist(v, e1) THEN 0 ELSE 1

\* 16 three-bit indices, pixel (0,0) lowest, as 6 bytes
PackAlphaIndices(idx) ==
    LET bit(t) == (idx[(t - 1) \div 3 + 1] \div (2 ^ ((t - 1) % 3))) % 2
    IN  [b \in 1..6 |->
            bit(8 * b - 7) + 2 * bit(8 * b - 6) + 4 * bit(8 * b - 5)
              + 8 * bit(8 * b - 4) + 16 * bit(8 * b - 3) + 32 * bit(8 * b - 2)
              + 64 * bit(8 * b - 1) + 128 * bit(8 * b)]

\* 16 two-bit indices as 4 bytes, one row each
PackColorIndices(idx) ==
    [y \in 1..4 |->
        idx[4 * y - 3] + 4 * idx[4 * y - 2] + 16 * idx[4 * y - 1] + 64 * idx[4 * y]]

EncodeAlpha(encoder, px) ==
    LET hi == MaxOver(px, "a")
        lo == MinOver(px, "a")
    IN  IF encoder = "STB"
        THEN <<px[1].a, px[1].a>> \o PackAlphaIndices([j \in 1..16 |-> 0])
        ELSE IF encoder = "Squish"
        THEN <<hi, lo>>
               \o PackAlphaIndices([j \in 1..16 |-> Nearest(px[j].a, hi, lo)])
        ELSE <<lo, hi>>
               \o PackAlphaIndices([j \in 1..16 |->
                      IF lo = hi THEN 0
                      ELSE IF px[j].a = 0 THEN 6
                      ELSE IF px[j].a = 255 THEN 7
                      ELSE Nearest(px[j].a, lo, hi)])

EncodeColor(encoder, px) ==
    LET hi == FirstWith(px, "g", MaxOver(px, "g"))
        lo == FirstWith(px, "g", MinOver(px, "g"))
        e0 == IF encoder = "STB" THEN px[1] ELSE IF encoder = "Squish" THEN hi ELSE lo
        e1 == IF encoder = "STB" THEN px[1] ELSE IF encoder = "Squish" THEN lo ELSE hi
        c0 == To565(e0)
        c1 == To565(e1)
    IN  <<c0 % 256, c0 \div 256, c1 % 256, c1 \div 256>>
          \o PackColorIndices([j \in 1..16 |->
                 IF encoder = "STB" THEN 0 ELSE Nearest(px[j].g, e0.g, e1.g)])

\* stb_compress_dxt_block / squish::Compress / rgbcx::encode_bc3: the alpha
\* sub-block, then the colour sub-block.
EncodeBlock(encoder, px) == EncodeAlpha(encoder, px) \o EncodeColor(encoder, px)

\* lines 361-372: blocks from (x, y) on, appended to out
RECURSIVE CompressLoop(_, _, _, _)
CompressLoop(bmp, encoder, out, xy) ==
    LET x == xy[1]
        y == xy[2]
    IN  IF y >= bmp.height THEN out
        ELSE IF x < bmp.width
        THEN CompressLoop(bmp, encoder,
                          out \o EncodeBlock(encoder, GatherBlock(bmp, x, y)),
                          <<x + 4, y>>)
        ELSE CompressLoop(bmp, encoder, out, <<0, y + 4>>)

\* CompressBC3_STB / CompressBC3_Squish / CompressBC3_RGBCX (bmp, outBlocks)
CompressBC3(bmp, encoder) == CompressLoop(bmp, encoder, <<>>, <<0, 0>>)

\* ------------------------------------- SpecFn: the block decoders
\* DecodeBC3AlphaBlock and DecodeBCColorBlock<true> called as DecompressBC3_MY
\* calls them on a 4-pixel-wide bitmap (xOff 4, yOff 16; alpha at dst + 3), for
\* every decode width and height.

\* The bytes of a 4 x 4 RGBA bitmap before a decode: a value no decode below
\* produces by chance in every place.
BlockMemory == [o \in 1..64 |-> 170]

\* 48-bit index streams: the indices 0..7 in turn, all 0, all 1, and mixed ones.
AlphaInputs ==
    LET AlphaStreams ==
            {<<136, 198, 250, 136, 198, 250>>, <<0, 0, 0, 0, 0, 0>>,
             <<73, 146, 36, 73, 146, 36>>}
            \cup {[i \in 1..6 |-> (41 * s * i + 13 * i * i + s) % 256] : s \in 1..5}
    IN  \* every endpoint pair with the stream of all indices at the full block size
        [op : {"alpha"}, a0 : Byte, a1 : Byte,
         st : {<<136, 198, 250, 136, 198, 250>>}, w : {4}, h : {4}]
        \* a few endpoint pairs with every stream and every decode size
        \cup [op : {"alpha"}, a0 : {200, 10, 77}, a1 : {200, 10, 77},
              st : AlphaStreams, w : 1..4, h : 1..4]

\* The 8 bytes of an alpha block: the endpoints, then the index stream.
AlphaBlock(in) == <<in.a0, in.a1>> \o in.st

\* A 5:6:5 colour for v in 0..63: every 5-bit and every 6-bit value occurs.
Color565(v) == (v % 32) * 2048 + v * 32 + ((7 * v + 3) % 32)

\* The 8 bytes of a colour block: c0 and c1 little-endian, then the index bytes.
ColorBlock(in) ==
    <<in.c0 % 256, in.c0 \div 256, in.c1 % 256, in.c1 \div 256>> \o in.idx

\* Index bytes: the indices 0..3 in turn, all 0, all 3, and mixed ones.
ColorInputs ==
    [op : {"color"}, c0 : {Color565(v) : v \in 0..63},
     c1 : {Color565(v) : v \in 0..63},
     idx : {<<228, 228, 228, 228>>, <<0, 0, 0, 0>>}, w : {4}, h : {4}]
    \cup [op : {"color"}, c0 : {65535, 1000, 2113}, c1 : {0, 40000, 2113},
          idx : {<<228, 228, 228, 228>>, <<0, 0, 0, 0>>, <<255, 255, 255, 255>>,
                 <<27, 177, 78, 228>>},
          w : 1..4, h : 1..4]

\* ------------------------------------- SpecFn: DecompressBC3_MY
\* On bitmaps of 1 to 9 blocks, block b with its own alpha and colour.

\* Block b: alpha endpoints (10 + b, 0), colours (Color565(b + 1), 0), every
\* index 0.
RECURSIVE TaggedBlocks(_)
TaggedBlocks(n) ==
    IF n = 0 THEN <<>>
    ELSE TaggedBlocks(n - 1)
         \o <<10 + (n - 1), 0, 0, 0, 0, 0, 0, 0,
              Color565(n) % 256, Color565(n) \div 256, 0, 0, 0, 0, 0, 0>>

\* DecompressBC3_MY(inputBlocks, output), output a w x h bitmap of bytes 170
FnDecompress ==
    /\ pc = "fn"
    /\ input.op = "decompress"
    /\ LET blocks == TaggedBlocks((input.w \div 4) * (input.h \div 4))
           output == BitmapPx(input.w, input.h,
                              [r |-> 170, g |-> 170, b |-> 170, a |-> 170])
           trace == DecompressTrace(<<>>, input.w, input.h, 0, <<0, 0>>)
       IN  result' = [pixels |-> DecompressBC3_MY(blocks, output).pixels,
                      stores |-> trace.stores,
                      consumed |-> trace.consumed]
    /\ pc' = "fn_done"
    /\ UNCHANGED <<input, mainVars>>

\* ------------------------------------- SpecFn: MakeMip's re-normalization
\* The lambda of lines 288-301 on one pixel: every byte in one channel with
\* the ends and the middle of the range in the other two.

MiddleAndEnds == {0, 127, 128, 255}

NormalizeInputs ==
    [op : {"normalize"}, r : Byte, g : MiddleAndEnds, b : MiddleAndEnds]
    \cup [op : {"normalize"}, r : MiddleAndEnds, g : Byte, b : MiddleAndEnds]
    \cup [op : {"normalize"}, r : MiddleAndEnds, g : MiddleAndEnds, b : Byte]

\* With a length of 0, il is infinite and x * il is not a number, whose
\* conversion to uint8_t is undefined: any byte.
FnNormalize ==
    /\ pc = "fn"
    /\ input.op = "normalize"
    /\ LET p == [r |-> input.r, g |-> input.g, b |-> input.b, a |-> 255]
       IN  IF LengthSquared(p) = 0
           THEN \E v \in MiddleAndEnds :
                    result' = [lengthSquared |-> 0,
                               pixel |-> [r |-> v, g |-> v, b |-> v, a |-> 0]]
           ELSE result' = [lengthSquared |-> LengthSquared(p),
                           pixel |-> NormalizePixel(p)]
    /\ pc' = "fn_done"
    /\ UNCHANGED <<input, mainVars>>

\* ------------------------------------- SpecFn: ConvertPixel
\* Each specialisation applied to a pixel, and to the pixel another one returned.

\* Channel values: both ends of the range, the low bits the division by 8
\* drops, and values between.
ConvertInputs ==
    LET ChannelSamples ==
            {0, 1, 2, 3, 4, 7, 8, 15, 16, 100, 127, 128, 200, 253, 254, 255}
    IN
    {[op |-> "convert", type |-> "Mono", p |-> [r |-> v]] : v \in Byte}
    \cup {[op |-> "convert", type |-> "Rgb", p |-> [r |-> r, g |-> g, b |-> b]] :
              r \in ChannelSamples, g \in ChannelSamples, b \in ChannelSamples}
    \cup {[op |-> "convert", type |-> "Rgba",
           p |-> [r |-> r, g |-> g, b |-> b, a |-> a]] :
              r \in ChannelSamples, g \in ChannelSamples, b \in ChannelSamples,
              a \in {0, 77, 255}}

\* The pixel the next conversion reads: the input, or the last result.
Converting == input.op = "convert" /\ pc \in {"fn", "fn_done"}

SrcPixel == IF pc = "fn" THEN input ELSE result

Converted(to, pixel) ==
    /\ result' = [type |-> to, p |-> pixel, from |-> SrcPixel.type]
    /\ pc' = IF pc = "fn" THEN "fn_done" ELSE "fn_back"
    /\ UNCHANGED <<input, mainVars>>

FnRgbToMono ==
    /\ Converting
    /\ SrcPixel.type = "Rgb"
    /\ Converted("Mono", ConvertPixel_RgbToMono(SrcPixel.p))

FnRgbaToMono ==
    /\ Converting
    /\ SrcPixel.type = "Rgba"
    /\ Converted("Mono", ConvertPixel_RgbaToMono(SrcPixel.p))

FnMonoToRgb ==
    /\ Converting
    /\ SrcPixel.type = "Mono"
    /\ Converted("Rgb", ConvertPixel_MonoToRgb(SrcPixel.p))

FnMonoToRgba ==
    /\ Converting
    /\ SrcPixel.type = "Mono"
    /\ Converted("Rgba", ConvertPixel_MonoToRgba(SrcPixel.p))

FnRgbaToRgb ==
    /\ Converting
    /\ SrcPixel.type = "Rgba"
    /\ Converted("Rgb", ConvertPixel_RgbaToRgb(SrcPixel.p))

FnRgbToRgba ==
    /\ Converting
    /\ SrcPixel.type = "Rgb"
    /\ Converted("Rgba", ConvertPixel_RgbToRgba(SrcPixel.p))

FnInputs ==
    AssembleInputs \cup ResidualInputs \cup AlphaInputs \cup ColorInputs
        \cup ConvertInputs \cup NormalizeInputs
        \cup [op : {"decompress"}, w : {4, 8, 12}, h : {4, 8, 12}]

InitFn ==
    /\ pc = "fn"
    /\ input \in FnInputs
    /\ result = <<>>
    /\ MainIdle

\* DecodeBC3AlphaBlock(dst + 3, w, h, 4, output.width * 4, src), dst = dest
FnDecodeAlpha ==
    /\ pc = "fn"
    /\ input.op = "alpha"
    /\ result' = DecodeBC3AlphaBlock(BlockMemory, 3, input.w, input.h, 4, 16,
                                     AlphaBlock(input))
    /\ pc' = "fn_done"
    /\ UNCHANGED <<input, mainVars>>

\* DecodeBCColorBlock<true>(dst, w, h, 4, output.width * 4, src), dst = dest
FnDecodeColor ==
    /\ pc = "fn"
    /\ input.op = "color"
    /\ result' = DecodeBCColorBlock(TRUE, BlockMemory, 0, input.w, input.h, 4, 16,
                                    ColorBlock(input))
    /\ pc' = "fn_done"
    /\ UNCHANGED <<input, mainVars>>

NextFn ==
    \/ FnAssemble
    \/ FnResidual
    \/ FnDecodeAlpha
    \/ FnDecodeColor
    \/ FnDecompress
    \/ FnNormalize
    \/ FnRgbToMono
    \/ FnRgbaToMono
    \/ FnMonoToRgb
    \/ FnMonoToRgba
    \/ FnRgbaToRgb
    \/ FnRgbToRgba

SpecFn == InitFn /\ [][NextFn]_vars

\* ------------------------------------- SpecPx: Main on images with pixels
\* Lines 641-820 with the pixels of every bitmap, on normal maps the steps are
\* defined on: power-of-two sides from kMinMipSize up.

PxSides == {Pow2(k) : k \in 2..MaxLogPx}

\* The images on disk: "flat" ones of one colour (a normal map the 5:6:5
\* colour of BC3 holds exactly in g and b once assembled), and "ramp" ones
\* whose channels all change from pixel to pixel.
NormalPixel(img, k) ==
    IF img = "flat" THEN [r |-> 128, g |-> 128, b |-> 252, a |-> 200]
    ELSE [r |-> (37 * k + 11) % 256, g |-> (91 * k + 5) % 256,
          b |-> 128 + ((53 * k) % 128), a |-> (7 * k + 1) % 256]

GlossPixel(img, k) ==
    IF img = "flat" THEN [r |-> 64] ELSE [r |-> (29 * k + 3) % 256]

HeightmapPixel(img, k) ==
    IF img = "flat" THEN [r |-> 77] ELSE [r |-> (113 * k + 9) % 256]

\* The second set: runs whose height map names no file, is no image or has
\* another size, and whose gloss map names no file.
PxInputs ==
    [w : PxSides, h : PxSides, img : {"flat", "ramp"},
     g : {"noarg", "noimage", "same", "differ"}, hm : {"noarg", "same"},
     l : BOOLEAN,
     q : {[given |-> FALSE, value |-> 0], [given |-> TRUE, value |-> 0],
          [given |-> TRUE, value |-> 1]},
     rs : {"point", "mean"}]
    \cup [w : PxSides, h : {4}, img : {"ramp"},
          g : {"nofile"}, hm : {"nofile", "noimage", "differ"},
          l : {FALSE}, q : {[given |-> FALSE, value |-> 0]}, rs : {"point"}]

\* LoadBitmap<PixelRgba>(pathNormalmap)
LoadNormalPx(in) ==
    [width |-> in.w, height |-> in.h,
     pixels |-> [k \in 1..(in.w * in.h) |-> NormalPixel(in.img, k - 1)]]

\* pathX.empty() ? Bitmap<PixelMono>(0, 1) : LoadBitmap<PixelMono>(pathX)
LoadAuxPx(kind, in, map) ==
    IF PathEmpty(kind) THEN [width |-> 0, height |-> 1, pixels |-> <<>>]
    ELSE IF kind = "noimage" THEN [width |-> 0, height |-> 0, pixels |-> <<>>]
    ELSE LET w == IF kind = "same" THEN in.w ELSE 2 * in.w IN
         [width |-> w, height |-> in.h,
          pixels |-> [k \in 1..(w * in.h) |->
                         IF map = "gloss" THEN GlossPixel(in.img, k - 1)
                         ELSE HeightmapPixel(in.img, k - 1)]]

NoBitmapPx == [width |-> 0, height |-> 0, pixels |-> <<>>]

InitPx ==
    /\ pc = "px_load"
    /\ input \in PxInputs
    /\ normalmap = NoBitmapPx
    /\ glossmap = NoBitmapPx
    /\ heightmap = NoBitmapPx
    /\ normalmapWithMips = NoTexture
    /\ glossmapWithMips = NoTexture
    /\ heightmapWithMips = NoTexture
    /\ bumpXWithMips = NoTexture
    /\ normalmapWithMipsCompressed = <<>>
    /\ bumpXMipsCompressed = <<>>
    /\ loopI = 0
    /\ calls = <<>>
    /\ files = <<>>
    /\ exitCode = 0
    /\ result = <<>>

\* mips[0] = bitmap; bitmap.clear(); BuildMipchain<T, isNormalmap>(texture);
WithMipsPx(tex, bitmap, normalize, rs) ==
    BuildMipchainPx([tex EXCEPT ![1] = bitmap], normalize, rs)

\* lines 641-674: load the three images, drop the auxiliary ones that do not fit
PxLoad ==
    /\ pc = "px_load"
    /\ LET n == LoadNormalPx(input) IN
       /\ normalmap' = n
       /\ glossmap' = CheckAuxPx(LoadAuxPx(input.g, input, "gloss"), n)
       /\ heightmap' =
              DefaultHeightPx(
                  CheckAuxPx(LoadAuxPx(input.hm, input, "height"), n), n)
    /\ pc' = "px_mips"
    /\ UNCHANGED <<input, normalmapWithMips, glossmapWithMips, heightmapWithMips,
                   bumpXWithMips, normalmapWithMipsCompressed,
                   bumpXMipsCompressed, loopI, calls, files, exitCode, result>>

\* lines 684-703 (step 1)
PxMipchains ==
    /\ pc = "px_mips"
    /\ normalmapWithMips' =
           WithMipsPx(TexturePx(nwidth, nheight, ZeroRgba), normalmap,
                      TRUE, input.rs)
    /\ normalmap' = ClearPx(normalmap)
    /\ IF ~EmptyPx(glossmap)
       THEN /\ glossmapWithMips' =
                   WithMipsPx(TexturePx(nwidth, nheight, ZeroMono), glossmap,
                              FALSE, input.rs)
            /\ glossmap' = ClearPx(glossmap)
       ELSE /\ glossmapWithMips' = TexturePx(nwidth, nheight, ZeroMono)
            /\ UNCHANGED glossmap
    /\ IF ~EmptyPx(heightmap)
       THEN /\ heightmapWithMips' =
                   WithMipsPx(TexturePx(nwidth, nheight, ZeroMono), heightmap,
                              FALSE, input.rs)
            /\ heightmap' = ClearPx(heightmap)
       ELSE /\ heightmapWithMips' = TexturePx(nwidth, nheight, ZeroMono)
            /\ UNCHANGED heightmap
    /\ pc' = "px_assemble"
    /\ UNCHANGED <<input, bumpXWithMips, normalmapWithMipsCompressed,
                   bumpXMipsCompressed, loopI, calls, files, exitCode, result>>

\* lines 707-725 (step 2)
PxAssemble ==
    /\ pc = "px_assemble"
    /\ normalmapWithMips' =
           [i \in 1..Len(normalmapWithMips) |->
               AssembleMip(normalmapWithMips[i], glossmapWithMips[i], input.l)]
    /\ pc' = "px_compress"
    /\ UNCHANGED <<input, normalmap, glossmap, heightmap, glossmapWithMips,
                   heightmapWithMips, bumpXWithMips, normalmapWithMipsCompressed,
                   bumpXMipsCompressed, loopI, calls, files, exitCode, result>>

\* lines 729-754 (step 3)
PxCompress ==
    /\ pc = "px_compress"
    /\ normalmapWithMipsCompressed' =
           [i \in 1..Len(normalmapWithMips) |->
               CompressBC3(normalmapWithMips[i], Encoder(Quality(input)))]
    /\ pc' = "px_residual"
    /\ UNCHANGED <<input, normalmap, glossmap, heightmap, normalmapWithMips,
                   glossmapWithMips, heightmapWithMips, bumpXWithMips,
                   bumpXMipsCompressed, loopI, calls, files, exitCode, result>>

\* lines 765-789, one mip: decode into bumpXMip, the error against normalMip,
\* the height into alpha
ResidualMipPx(normalMip, compressedMip, heightMip, bumpXMip) ==
    LET decoded == DecompressBC3_MY(compressedMip, bumpXMip) IN
    [decoded EXCEPT !.pixels =
        [k \in 1..Len(decoded.pixels) |->
            HeightPixel(ErrorPixel(normalMip.pixels[k], decoded.pixels[k]),
                        heightMip.pixels[k])]]

\* lines 758-792 (step 4)
PxResidual ==
    /\ pc = "px_residual"
    /\ bumpXWithMips' =
           [i \in 1..Len(normalmapWithMips) |->
               ResidualMipPx(normalmapWithMips[i], normalmapWithMipsCompressed[i],
                             heightmapWithMips[i],
                             TexturePx(nwidth, nheight, ZeroRgba)[i])]
    /\ pc' = "px_compress_x"
    /\ UNCHANGED <<input, normalmap, glossmap, heightmap, normalmapWithMips,
                   glossmapWithMips, heightmapWithMips,
                   normalmapWithMipsCompressed, bumpXMipsCompressed, loopI,
                   calls, files, exitCode, result>>

\* lines 795-820 (step 5)
PxCompressX ==
    /\ pc = "px_compress_x"
    /\ bumpXMipsCompressed' =
           [i \in 1..Len(bumpXWithMips) |->
               CompressBC3(bumpXWithMips[i], Encoder(Quality(input)))]
    /\ pc' = "px_done"
    /\ UNCHANGED <<input, normalmap, glossmap, heightmap, normalmapWithMips,
                   glossmapWithMips, heightmapWithMips, bumpXWithMips,
                   normalmapWithMipsCompressed, loopI, calls, files, exitCode,
                   result>>

RECURSIVE ConcatMips_Reversed(_, _)
ConcatMips_Reversed(compressedMips, n) ==
    IF n = 0 THEN <<>>
    ELSE compressedMips[n] \o ConcatMips_Reversed(compressedMips, n - 1)

\* for (auto& cm : compressedMips) file.write(cm.data(), cm.size());
\* the bytes written by the first n payloads
RECURSIVE ConcatMips(_, _)
ConcatMips(compressedMips, n) ==
    IF n = 0 THEN <<>>
    ELSE ConcatMips(compressedMips, n - 1) \o compressedMips[n]

\* The file SaveAsDDS leaves when the stream opened, byte by byte.
DDSFileBytes(name, compressedMips, w, h) ==
    [name |-> name,
     bytes |-> DDSHeaderBytes(DDSHeader(compressedMips, w, h))
                 \o ConcatMips(compressedMips, Len(compressedMips))]

\* lines 826-831: SaveAsDDS(normalmapWithMipsCompressed, nwidth, nheight, ...)
PxSaveBump ==
    /\ pc = "px_done"
    /\ \E good \in BOOLEAN :
         IF good
         THEN /\ files' = Append(files,
                     DDSFileBytes("_bump.dds", normalmapWithMipsCompressed,
                                  nwidth, nheight))
              /\ pc' = "px_save_bump_x"
              /\ UNCHANGED exitCode
         ELSE /\ Exit(-1)
              /\ UNCHANGED files
    /\ UNCHANGED <<input, normalmap, glossmap, heightmap, normalmapWithMips,
                   glossmapWithMips, heightmapWithMips, bumpXWithMips,
                   normalmapWithMipsCompressed, bumpXMipsCompressed, loopI,
                   calls, result>>

\* lines 833-841: SaveAsDDS(bumpXMipsCompressed, nwidth, nheight, ...); return 0;
PxSaveBumpX ==
    /\ pc = "px_save_bump_x"
    /\ \E good \in BOOLEAN :
         IF good
         THEN /\ files' = Append(files,
                     DDSFileBytes("_bump#.dds", bumpXMipsCompressed,
                                  nwidth, nheight))
              /\ Exit(0)
         ELSE /\ Exit(-1)
              /\ UNCHANGED files
    /\ UNCHANGED <<input, normalmap, glossmap, heightmap, normalmapWithMips,
                   glossmapWithMips, heightmapWithMips, bumpXWithMips,
                   normalmapWithMipsCompressed, bumpXMipsCompressed, loopI,
                   calls, result>>

NextPx ==
    \/ PxLoad
    \/ PxMipchains
    \/ PxAssemble
    \/ PxCompress
    \/ PxResidual
    \/ PxCompressX
    \/ PxSaveBump
    \/ PxSaveBumpX

SpecPx == InitPx /\ [][NextPx]_vars

\* ---------------------------------------------------------------- claims
\* Written from the claims' own words, not from the operators above.

\* floor(log2(v)) for v >= 1
FloorLog2(v) == CHOOSE n \in 0..29 : 2 ^ n <= v /\ v < 2 ^ (n + 1)

\* v >> i
Shr(v, i) == v \div (2 ^ i)

DimsOf(mips) == [i \in 1..Len(mips) |-> <<mips[i].width, mips[i].height>>]

\* The pyramid the claim C1 describes, for every mip from 0 on.
PyramidAsClaimed(mips, W, H) ==
    /\ Len(mips) = FloorLog2(Max(W, H))
    /\ \A i \in 0..(Len(mips) - 1) :
           DimsOf(mips)[i + 1] = <<Max(Shr(W, i), 4), Max(Shr(H, i), 4)>>

\* The same with mip 0 at the base size.
PyramidAmended(mips, W, H) ==
    /\ Len(mips) = FloorLog2(Max(W, H))
    /\ \A i \in 0..(Len(mips) - 1) :
           DimsOf(mips)[i + 1] =
               IF i = 0 THEN <<W, H>>
               ELSE <<Max(Shr(W, i), 4), Max(Shr(H, i), 4)>>

C2_AsStated ==
    (nwidth = 256 /\ nheight = 128) =>
        /\ pc \in {"mip_normal", "tex_gloss"} =>
               DimsOf(normalmapWithMips) =
                   <<<<256, 128>>, <<128, 64>>, <<64, 32>>, <<32, 16>>,
                     <<16, 8>>, <<8, 4>>, <<4, 4>>>>
        /\ \A f \in 1..Len(files) : files[f].header.dwMipMapCount = 7

\* C2 amended: a 256x128 input gives exactly 8 mips, (256,128), (128,64),
\* (64,32), (32,16), (16,8), (8,4), (4,4), (4,4), and dwMipMapCount is 8 in
\* both files.
C2_MipCount256x128 ==
    (nwidth = 256 /\ nheight = 128) =>
        /\ pc \in {"mip_normal", "tex_gloss"} =>
               DimsOf(normalmapWithMips) =
                   <<<<256, 128>>, <<128, 64>>, <<64, 32>>, <<32, 16>>,
                     <<16, 8>>, <<8, 4>>, <<4, 4>>, <<4, 4>>>>
        /\ \A f \in 1..Len(files) : files[f].header.dwMipMapCount = 8

\* A 256x128 run has written both files.
C2_Witness ==
    /\ nwidth = 256 /\ nheight = 128
    /\ Len(files) = 2
    /\ Len(normalmapWithMips) = 8

\* The MakeMip calls issued on texture `name`, in order.
CallsOn(name) == SelectSeq(calls, LAMBDA c : c.tex = name)

\* They are the calls for i = 1, 2, ... in order, from mip max(0, i - 3) to
\* mip i, each reading a populated source.
CallsInOrder(name) ==
    \A j \in 1..Len(CallsOn(name)) :
        /\ CallsOn(name)[j].dst = j
        /\ CallsOn(name)[j].src = (IF j > 3 THEN j - 3 ELSE 0)
        /\ CallsOn(name)[j].srcData

\* C10: BuildMipchain on N mips calls MakeMip once for each i in 1..N-1 in
\* increasing order, from mip max(0, i - 3) to mip i; it never writes mip 0,
\* and every source is populated when read.
C10_BuildMipchainCalls ==
    /\ \A name \in {"normal", "gloss", "height"} : CallsInOrder(name)
    /\ pc = "mip_normal" => Len(CallsOn("normal")) = loopI - 1
    /\ pc = "tex_gloss" => Len(CallsOn("normal")) = Len(normalmapWithMips) - 1
    /\ (pc = "tex_height" /\ glossmapWithMips[1].data) =>
           Len(CallsOn("gloss")) = Len(glossmapWithMips) - 1
    /\ pc = "assemble" => Len(CallsOn("height")) = Len(heightmapWithMips) - 1
    /\ pc \in {"mip_normal", "tex_gloss"} =>
           normalmapWithMips[1] = LoadBitmap(TRUE, nwidth, nheight)

\* BuildMipchain has finished on a pyramid deep enough to step back three mips.
C10_Witness ==
    /\ pc = "tex_gloss"
    /\ Len(CallsOn("normal")) = 7
    /\ CallsOn("normal")[7].src = 4

\* C4 as stated: the bump red channel is the gloss byte g with -l:g and
\* otherwise sqrt(g / 255) * 255 rounded to the nearest integer; gloss 64
\* gives 64 with -l:g and 128 without.
C4_AsStated ==
    (pc = "fn_done" /\ input.op = "assemble") =>
        /\ result.r = (IF input.linearGloss THEN input.gp.r
                       ELSE RoundSqrt(255 * input.gp.r))
        /\ input.gp.r = 64 => result.r = (IF input.linearGloss THEN 64 ELSE 128)

\* C4 amended: the bump red channel is the gloss byte g with -l:g and
\* otherwise sqrt(g / 255) * 255 truncated to an integer (the largest s with
\* s * s <= 255 * g); gloss 64 gives 64 with -l:g and 127 without.
C4_GlossCurve ==
    (pc = "fn_done" /\ input.op = "assemble") =>
        /\ input.linearGloss => result.r = input.gp.r
        /\ ~input.linearGloss =>
               /\ result.r \in Byte
               /\ result.r * result.r <= 255 * input.gp.r
               /\ 255 * input.gp.r < (result.r + 1) * (result.r + 1)
        /\ input.gp.r = 64 => result.r = (IF input.linearGloss THEN 64 ELSE 127)

\* A gloss of 64 has gone through the curve.
C4_Witness ==
    /\ pc = "fn_done" /\ input.op = "assemble"
    /\ ~input.linearGloss
    /\ input.gp.r = 64
    /\ result.r = 127

\* The byte the claim C8 stores for a difference d.
ResidualByte(d) == IF d < -64 THEN 0 ELSE IF d > 63 THEN 255 ELSE 2 * d + 128

ResidualByteAsClaimed(e, d) ==
    /\ e = ResidualByte(d)
    /\ ((e - 128) \div 2 = d /\ (e - 128) % 2 = 0) <=> (-64 <= d /\ d <= 63)

\* C8: for every difference d = np - dp in -255..255 the stored byte is
\* e = clamp(2d + 128, 0, 255): (e - 128) / 2 = d exactly when -64 <= d <= 63,
\* e = 0 below, e = 255 above; the narrowing to a byte never changes the value.
C8_ResidualByte ==
    (pc = "fn_done" /\ input.op = "residual") =>
        /\ ResidualByteAsClaimed(result.r, input.np.a - input.dp.a)
        /\ ResidualByteAsClaimed(result.g, input.np.b - input.dp.b)
        /\ ResidualByteAsClaimed(result.b, input.np.g - input.dp.g)

\* A difference above 63 has been stored saturated.
C8_Witness ==
    /\ pc = "fn_done" /\ input.op = "residual"
    /\ input.np.a - input.dp.a = 64
    /\ result.r = 255

\* ---- claims on the pixels of the pipeline (SpecPx)

GlossInEffect == input.g = "same"

Pixels(tex) ==
    UNION {{<<i, k>> : k \in 1..Len(tex[i].pixels)} : i \in 1..Len(tex)}

\* C3 as stated: with no gloss map in effect the assembled red is the normal
\* map's red (Nx) byte, and g, b, a are the swizzled np.b, np.g, np.r.
C3_AsStated ==
    [][(pc = "px_assemble" /\ ~GlossInEffect) =>
          \A ik \in Pixels(normalmapWithMips) :
              LET np == normalmapWithMips[ik[1]].pixels[ik[2]]
                  out == normalmapWithMips'[ik[1]].pixels[ik[2]]
              IN  out = [r |-> np.r, g |-> np.b, b |-> np.g, a |-> np.r]]_vars

\* C3 amended: with no gloss map in effect (not given, unloadable, or of
\* another size) every assembled bump pixel of every mip has red 0, the gloss
\* pyramid being all zero, and g = np.b, b = np.g, a = np.r.
C3_NoGlossRedZero ==
    [][(pc = "px_assemble" /\ ~GlossInEffect) =>
          \A ik \in Pixels(normalmapWithMips) :
              LET np == normalmapWithMips[ik[1]].pixels[ik[2]]
                  out == normalmapWithMips'[ik[1]].pixels[ik[2]]
              IN  out = [r |-> 0, g |-> np.b, b |-> np.g, a |-> np.r]]_vars

\* Assembled without a gloss map of the right size: red 0 where Nx was 128.
C3_Witness ==
    /\ pc = "px_compress"
    /\ input.g = "differ"
    /\ input.img = "flat"
    /\ normalmapWithMips[1].pixels[1] = [r |-> 0, g |-> 252, b |-> 128, a |-> 128]

\* C5: for every mip i and pixel k the assembler writes out.g = np.b,
\* out.b = np.g, out.a = np.r with np the normal-map pixel (i, k) before the
\* assembly; the result replaces the normal-map mip in place, every pixel
\* computed from its own value before any write to it.
C5_Swizzle ==
    [][pc = "px_assemble" =>
          /\ Len(normalmapWithMips') = Len(normalmapWithMips)
          /\ \A i \in 1..Len(normalmapWithMips) :
                 /\ normalmapWithMips'[i].width = normalmapWithMips[i].width
                 /\ normalmapWithMips'[i].height = normalmapWithMips[i].height
                 /\ Len(normalmapWithMips'[i].pixels)
                        = Len(normalmapWithMips[i].pixels)
          /\ \A ik \in Pixels(normalmapWithMips) :
                 LET np == normalmapWithMips[ik[1]].pixels[ik[2]]
                     out == normalmapWithMips'[ik[1]].pixels[ik[2]]
                 IN  out.g = np.b /\ out.b = np.g /\ out.a = np.r]_vars

\* Assembled from a ramp: neighbouring pixels differ in every swizzled channel.
C5_Witness ==
    /\ pc = "px_compress"
    /\ input.img = "ramp"
    /\ LET p == normalmapWithMips[1].pixels[1]
           q == normalmapWithMips[1].pixels[2]
       IN  /\ p = [r |-> p.r, g |-> 128, b |-> 5, a |-> 11]
           /\ q.g # p.g /\ q.b # p.b /\ q.a # p.a

ResidualDone == pc \in {"px_compress_x", "px_done"}

\* The reconstruction of mip i: the compressed payload decoded into a zeroed
\* mip of the same size.
Decoded(i) ==
    DecompressBC3_MY(normalmapWithMipsCompressed[i],
                     BitmapPx(normalmapWithMips[i].width,
                              normalmapWithMips[i].height, ZeroRgba))

ClampInt(v) == IF v < 0 THEN 0 ELSE IF v > 255 THEN 255 ELSE v

\* The pixels of bump# mip i as C6 states them, dec the reconstruction of mip i.
ResidualAsClaimed(i, dec) ==
    \A k \in 1..Len(bumpXWithMips[i].pixels) :
        LET np == normalmapWithMips[i].pixels[k]
            dp == dec.pixels[k]
        IN  bumpXWithMips[i].pixels[k]
              = [r |-> ClampInt((np.a - dp.a) * 2 + 128),
                 g |-> ClampInt((np.b - dp.b) * 2 + 128),
                 b |-> ClampInt((np.g - dp.g) * 2 + 128),
                 a |-> heightmapWithMips[i].pixels[k].r]

\* C6: for every mip i and pixel k the bump# pixel before encoding is
\* (clamp((np.a - dp.a) * 2 + 128), clamp((np.b - dp.b) * 2 + 128),
\* clamp((np.g - dp.g) * 2 + 128), height[i][k].r), the clamp to 0..255, np the
\* assembled bump pixel and dp its BC3-decoded reconstruction; no channel holds
\* the red (gloss) error.
C6_ResidualPixel ==
    ResidualDone =>
        \A i \in 1..Len(bumpXWithMips) :
            \A dec \in {Decoded(i)} : ResidualAsClaimed(i, dec)

\* A residual with a lossy reconstruction: the three errors differ from 128
\* and from one another, and the red error is another value again.
C6_Witness ==
    /\ ResidualDone
    /\ input.img = "ramp"
    /\ \E k \in 1..Len(bumpXWithMips[1].pixels) :
           LET np == normalmapWithMips[1].pixels[k]
               dp == Decoded(1).pixels[k]
               x == bumpXWithMips[1].pixels[k]
           IN  /\ x.r # 128 /\ x.g # 128 /\ x.b # 128
               /\ x.r # x.g /\ x.g # x.b /\ x.r # x.b
               /\ ClampInt((np.r - dp.r) * 2 + 128) \notin {x.r, x.g, x.b}
               /\ x.a = heightmapWithMips[1].pixels[k].r
               /\ x.a # 0

\* The pixels of bump# mip i the reconstruction dec has exact in g, b and a.
ExactAsClaimed(i, dec) ==
    \A k \in 1..Len(bumpXWithMips[i].pixels) :
        LET np == normalmapWithMips[i].pixels[k]
            dp == dec.pixels[k]
            x == bumpXWithMips[i].pixels[k]
        IN  (dp.g = np.g /\ dp.b = np.b /\ dp.a = np.a) =>
                /\ x.r = 128 /\ x.g = 128 /\ x.b = 128
                /\ x.a = heightmapWithMips[i].pixels[k].r

\* C7: where the reconstruction equals the assembled bump pixel in g, b and a,
\* the residual's r, g and b are 128 and its alpha is the height map's red at
\* that pixel.
C7_ExactBlock ==
    ResidualDone =>
        \A i \in 1..Len(bumpXWithMips) :
            \A dec \in {Decoded(i)} : ExactAsClaimed(i, dec)

\* A flat block reproduced exactly in g, b and a, though not in red.
C7_Witness ==
    /\ ResidualDone
    /\ input.img = "flat" /\ input.g = "same" /\ input.hm = "same"
    /\ LET np == normalmapWithMips[1].pixels[1]
           dp == Decoded(1).pixels[1]
       IN  /\ dp.g = np.g /\ dp.b = np.b /\ dp.a = np.a
           /\ dp.r # np.r
           /\ bumpXWithMips[1].pixels[1] = [r |-> 128, g |-> 128, b |-> 128, a |-> 77]

MipchainsBuilt == pc = "px_assemble"

\* What the resampler wrote into mip i (from 1) of the normal map, before
\* the renormalization.
Resampled(i) ==
    Resample(input.rs, normalmapWithMips[SrcMip(i) + 1],
             normalmapWithMips[i + 1].width, normalmapWithMips[i + 1].height)

\* C9 as stated: renormalization leaves alpha as the resampler wrote it.
C9_AsStated ==
    MipchainsBuilt =>
        \A i \in 1..(Len(normalmapWithMips) - 1) :
            \A resized \in {Resampled(i)} :
                \A k \in 1..Len(resized) :
                    normalmapWithMips[i + 1].pixels[k].a = resized[k].a

\* C9 amended: renormalization in MakeMip with normalize = true rewrites r, g
\* and b of every destination pixel and sets its alpha to 0, whatever alpha
\* the resampler wrote.
C9_AlphaZeroed ==
    MipchainsBuilt =>
        \A i \in 1..(Len(normalmapWithMips) - 1) :
            \A resized \in {Resampled(i)} :
            \A k \in 1..Len(resized) :
                LET p == normalmapWithMips[i + 1].pixels[k]
                    X == 2 * resized[k].r - 255
                    Y == 2 * resized[k].g - 255
                    Z == 2 * resized[k].b - 255
                IN  /\ p.a = 0
                    /\ (X > 0 => p.r >= 127) /\ (X < 0 => p.r <= 127)
                    /\ (Y > 0 => p.g >= 127) /\ (Y < 0 => p.g <= 127)
                    /\ (Z > 0 => p.b >= 127) /\ (Z < 0 => p.b <= 127)

\* Mip 1 renormalized from pixels the resampler gave alpha 200.
C9_Witness ==
    /\ MipchainsBuilt
    /\ input.img = "flat"
    /\ Resampled(1)[1].a = 200
    /\ normalmapWithMips[2].pixels[1] = [r |-> 128, g |-> 128, b |-> 254, a |-> 0]

\* ---- claims on MakeMip's arguments (Spec)

\* The texture a MakeMip call was issued on.
TexOf(name) ==
    IF name = "normal" THEN normalmapWithMips
    ELSE IF name = "gloss" THEN glossmapWithMips
    ELSE heightmapWithMips

SrcOf(c) == TexOf(c.tex)[c.src + 1]

DstOf(c) == TexOf(c.tex)[c.dst + 1]

NotLarger(d, s) == d.width <= s.width /\ d.height <= s.height

StrictlySmaller(d, s) ==
    NotLarger(d, s) /\ (d.width < s.width \/ d.height < s.height)

\* C11 as stated: in every MakeMip call of BuildMipchain the destination is
\* not larger than the source in either dimension and smaller in at least one.
C11_AsStated ==
    \A j \in 1..Len(calls) : StrictlySmaller(DstOf(calls[j]), SrcOf(calls[j]))

\* C11 amended: for a W x H map with both sides at least 4 no destination is
\* larger than its source in either dimension, and it is smaller in at least
\* one unless the map is 4 x 4, whose only call is a same-size copy; a side
\* below 4 makes every destination resampled from mip 0 larger than it in
\* that dimension.
C11_MakeMipSizes ==
    \A j \in 1..Len(calls) :
        LET d == DstOf(calls[j])
            s == SrcOf(calls[j])
        IN  /\ (input.w >= 4 /\ input.h >= 4) =>
                   /\ NotLarger(d, s)
                   /\ (input.w > 4 \/ input.h > 4) => StrictlySmaller(d, s)
                   /\ (input.w = 4 /\ input.h = 4) =>
                          d.width = s.width /\ d.height = s.height
            /\ (input.w < 4 /\ calls[j].src = 0) => d.width > s.width
            /\ (input.h < 4 /\ calls[j].src = 0) => d.height > s.height

\* BuildMipchain has run on a 4 x 4 normal map: one call, 4 x 4 from 4 x 4.
C11_Witness ==
    /\ pc = "tex_gloss"
    /\ input.w = 4 /\ input.h = 4
    /\ Len(calls) = 1
    /\ DstOf(calls[1]).width = 4 /\ SrcOf(calls[1]).width = 4
    /\ DstOf(calls[1]).height = 4 /\ SrcOf(calls[1]).height = 4

\* ---- claims on the DDS header (Spec)

\* The uint32_t read back from the bytes at file offset off, least
\* significant byte first.
ReadU32(bytes, off) ==
    bytes[off + 1] + 256 * bytes[off + 2] + 65536 * bytes[off + 3]
      + 16777216 * bytes[off + 4]

\* The offsets of the header fields C12 names.
NamedOffsets == {0, 4, 8, 12, 16, 28, 76, 80, 84, 108}

HeaderAsClaimed(bytes, W, H, N) ==
    /\ Len(bytes) = 128
    /\ ReadU32(bytes, 0) = 542327876        \* 0x20534444
    /\ ReadU32(bytes, 4) = 124
    /\ ReadU32(bytes, 8) = 135175           \* 0x00021007
    /\ ReadU32(bytes, 12) = H
    /\ ReadU32(bytes, 16) = W
    /\ ReadU32(bytes, 28) = N
    /\ ReadU32(bytes, 76) = 32
    /\ ReadU32(bytes, 80) = 4
    /\ ReadU32(bytes, 84) = 894720068       \* 0x35545844
    /\ ReadU32(bytes, 108) = 4198400        \* 0x00401000
    /\ \A o \in 0..127 :
           (o - (o % 4)) \notin NamedOffsets => bytes[o + 1] = 0

\* C12: every file SaveAsDDS wrote starts with a 128-byte header holding, least
\* significant byte first, the magic 0x20534444 at offset 0, dwSize 124 at 4,
\* dwFlags 0x00021007 at 8, dwHeight = H at 12, dwWidth = W at 16,
\* dwMipMapCount = the number of payloads at 28, ddpf.dwSize 32 at 76,
\* ddpf.dwFlags 4 at 80, the FourCC 0x35545844 at 84, dwCaps 0x00401000 at 108
\* and zero in every other byte; reading dwWidth, dwHeight and dwMipMapCount
\* back gives (W, H, N).
C12_DDSHeader ==
    \A f \in 1..Len(files) :
        LET N == IF files[f].name = "_bump.dds"
                 THEN Len(normalmapWithMipsCompressed)
                 ELSE Len(bumpXMipsCompressed)
        IN  HeaderAsClaimed(files[f].headerBytes, nwidth, nheight, N)

\* Both files written for a 256 x 64 map: the width needs the second byte.
C12_Witness ==
    /\ pc = "exit"
    /\ Len(files) = 2
    /\ nwidth = 256 /\ nheight = 64
    /\ files[2].headerBytes[17] = 0 /\ files[2].headerBytes[18] = 1
    /\ files[2].headerBytes[13] = 64
    /\ files[2].headerBytes[29] = 8

\* ---- claims on the DDS payload (SpecPx)

\* (w_i / 4) * (h_i / 4) * 16 for mip i (from 1) of the pyramid
PayloadLength(i) ==
    (normalmapWithMips[i].width \div 4) * (normalmapWithMips[i].height \div 4) * 16

\* The sum of the payload lengths of the mips before mip i.
RECURSIVE PayloadOffset(_)
PayloadOffset(i) ==
    IF i = 1 THEN 0 ELSE PayloadOffset(i - 1) + PayloadLength(i - 1)

\* The payloads the file called name was written from.
MipsOf(name) ==
    IF name = "_bump.dds" THEN normalmapWithMipsCompressed
    ELSE bumpXMipsCompressed

PayloadAsClaimed(bytes, mips) ==
    /\ Len(bytes) = 128 + PayloadOffset(Len(mips) + 1)
    /\ \A i \in 1..Len(mips) :
           /\ Len(mips[i]) = PayloadLength(i)
           /\ \A b \in 1..Len(mips[i]) :
                  bytes[128 + PayloadOffset(i) + b] = mips[i][b]

\* C13: in every file written, the bytes after the 128-byte header are the mip
\* payloads one after another in increasing mip index with nothing between
\* them, and the file is 128 + the sum over the mips of (w_i/4)*(h_i/4)*16
\* bytes long.
C13_DDSPayload ==
    \A f \in 1..Len(files) :
        \A bytes \in {files[f].bytes} :
            PayloadAsClaimed(bytes, MipsOf(files[f].name))

\* Both files written for an 8 x 8 ramp: 128 + 64 + 16 + 16 bytes each, the
\* first payload byte differing from the first byte of the last mip.
C13_Witness ==
    /\ pc = "exit"
    /\ Len(files) = 2
    /\ input.w = 8 /\ input.h = 8 /\ input.img = "ramp"
    /\ Len(files[1].bytes) = 224 /\ Len(files[2].bytes) = 224
    /\ files[1].bytes[129] # files[1].bytes[209]

\* ---- claims on the encoded payloads (Spec)

\* C14 as stated: step 3 leaves, for every mip of size w x h, a payload of
\* (w / 4) * (h / 4) blocks of 16 bytes written one after another, w * h bytes
\* long, whichever encoder the quality selects.
C14_AsStated ==
    [][pc = "compress" =>
          /\ Len(normalmapWithMipsCompressed') = Len(normalmapWithMips)
          /\ \A i \in 1..Len(normalmapWithMips) :
                 LET mip == normalmapWithMips[i]
                     payload == normalmapWithMipsCompressed'[i]
                 IN  /\ payload.blocks = (mip.width \div 4) * (mip.height \div 4)
                     /\ payload.size = 16 * payload.blocks
                     /\ payload.size = mip.width * mip.height]_vars

\* A byte no decode wrote.
Untouched == BlockMemory[1]

ColorDecoded == pc = "fn_done" /\ input.op = "color"

AlphaDecoded == pc = "fn_done" /\ input.op = "alpha"

\* A 5:6:5 colour expanded with plain left shifts.
Expanded(c) == <<((c \div 2048) % 32) * 8, ((c \div 32) % 64) * 4, (c % 32) * 8>>

FourColourPalette(c0, c1) ==
    LET e0 == Expanded(c0)
        e1 == Expanded(c1)
    IN  <<e0, e1,
          [i \in 1..3 |-> (2 * e0[i] + e1[i] + 1) \div 3],
          [i \in 1..3 |-> (e0[i] + 2 * e1[i] + 1) \div 3]>>

\* Bits 2x .. 2x+1 of index byte y.
ColourIndexAt(idx, x, y) == (idx[y + 1] \div (4 ^ x)) % 4

\* The r, g, b bytes the decode left at pixel (x, y) of the block.
ColourAt(mem, x, y) == <<mem[16 * y + 4 * x + 1], mem[16 * y + 4 * x + 2],
                         mem[16 * y + 4 * x + 3]>>

\* The alpha byte the decode left at pixel (x, y) of the block.
AlphaAt(mem, x, y) == mem[16 * y + 4 * x + 4]

\* C15: the colour decoder expands c0 and c1 with plain left shifts and always
\* uses the four-colour palette c2 = (2*c0+c1+1)/3, c3 = (c0+2*c1+1)/3, also
\* when c0 <= c1; a block whose indices are all 0 decodes to expanded(c0) at
\* every pixel.
C15_ColourPalette ==
    ColorDecoded =>
        \A pal \in {FourColourPalette(input.c0, input.c1)} :
            /\ \A x \in 0..(input.w - 1), y \in 0..(input.h - 1) :
                   ColourAt(result, x, y)
                       = pal[ColourIndexAt(input.idx, x, y) + 1]
            /\ input.idx = <<0, 0, 0, 0>> =>
                   \A x \in 0..(input.w - 1), y \in 0..(input.h - 1) :
                       ColourAt(result, x, y) = Expanded(input.c0)

\* A block with c0 < c1 whose pixels all have index 3 decoded to a colour that
\* is not black.
C15_Witness ==
    /\ ColorDecoded
    /\ input.c0 = 1000 /\ input.c1 = 40000
    /\ input.idx = <<255, 255, 255, 255>>
    /\ input.w = 4 /\ input.h = 4
    /\ ColourAt(result, 3, 3) = <<101, 132, 21>>

\* The alpha for index k as the claim gives it.
AlphaAsClaimed(a0, a1, k) ==
    IF k = 0 THEN a0
    ELSE IF k = 1 THEN a1
    ELSE IF a0 > a1 THEN ((8 - k) * a0 + (k - 1) * a1) \div 7
    ELSE IF k \in 2..5 THEN ((6 - k) * a0 + (k - 1) * a1) \div 5
    ELSE IF k = 6 THEN 0
    ELSE 255

\* Bit t (from 0) of the 48-bit little-endian index stream.
StreamBit(st, t) == (st[t \div 8 + 1] \div (2 ^ (t % 8))) % 2

\* Bits 3*(4*y+x) .. 3*(4*y+x)+2 of the stream.
AlphaIndexAt(st, x, y) ==
    LET t == 3 * (4 * y + x)
    IN  StreamBit(st, t) + 2 * StreamBit(st, t + 1) + 4 * StreamBit(st, t + 2)

\* C16: for every endpoint pair (a0, a1) and 3-bit index k the alpha decoder
\* outputs a0 for k = 0, a1 for k = 1, ((8-k)*a0+(k-1)*a1)/7 for k >= 2 when
\* a0 > a1, and otherwise ((6-k)*a0+(k-1)*a1)/5 for k in 2..5, 0 for k = 6 and
\* 255 for k = 7.
C16_AlphaValues ==
    (AlphaDecoded /\ input.w = 4 /\ input.h = 4) =>
        \A x \in 0..3, y \in 0..3 :
            AlphaAt(result, x, y)
                = AlphaAsClaimed(input.a0, input.a1,
                                 AlphaIndexAt(input.st, x, y))

\* A block with a0 <= a1 whose stream holds every index: pixels 6 and 7 decoded
\* to 0 and 255, pixel 2 to the 5-step interpolation.
C16_Witness ==
    /\ AlphaDecoded
    /\ input.a0 = 50 /\ input.a1 = 100
    /\ input.st = <<136, 198, 250, 136, 198, 250>>
    /\ AlphaAt(result, 2, 0) = 60
    /\ AlphaAt(result, 2, 1) = 0
    /\ AlphaAt(result, 3, 1) = 255

\* C17: for every decode width and height in 1..4 the alpha index of pixel
\* (x, y) is bits 3*(4*y+x) .. 3*(4*y+x)+2 of the index stream, so rows after a
\* partial row stay aligned, and the colour index of (x, y) is bits 2x .. 2x+1
\* of index byte y. The endpoints checked give eight distinct alphas and four
\* distinct colours, so the byte written tells the index used.
C17_IndexPositions ==
    /\ (AlphaDecoded /\ input.a0 # input.a1 /\ input.a0 \in {200, 10, 77}
            /\ input.a1 \in {200, 10, 77}) =>
           \A x \in 0..(input.w - 1), y \in 0..(input.h - 1) :
               \A k \in 0..7 :
                   AlphaAt(result, x, y) = AlphaValue(input.a0, input.a1, k)
                       <=> k = AlphaIndexAt(input.st, x, y)
    /\ (ColorDecoded /\ input.c0 # input.c1) =>
           \A x \in 0..(input.w - 1), y \in 0..(input.h - 1) :
               \A k \in 0..3 :
                   ColourAt(result, x, y)
                       = BlockColors(TRUE, ColorBlock(input))[k + 1]
                       <=> k = ColourIndexAt(input.idx, x, y)

\* A decode of width 3 and height 2 of a mixed stream: the second row was
\* written, and its first pixel has an index other than the one three bits
\* after the first row's last.
C17_Witness ==
    /\ AlphaDecoded
    /\ input.w = 3 /\ input.h = 2
    /\ input.a0 = 200 /\ input.a1 = 10
    /\ AlphaIndexAt(input.st, 0, 1) # AlphaIndexAt(input.st, 3, 0)
    /\ AlphaAt(result, 0, 1) # Untouched
    /\ AlphaAt(result, 3, 0) = Untouched

\* A pixel converted once, and a pixel converted there and back.
ConvertedOnce == input.op = "convert" /\ pc = "fn_done"

ConvertedBack(type, via) ==
    /\ input.op = "convert" /\ pc = "fn_back"
    /\ input.type = type /\ result.from = via /\ result.type = type

\* C18: RGB->Mono and RGBA->Mono both return floor((2r+5g+b)/8), whatever the
\* alpha; the value never exceeds 255, so the 8-bit truncation never changes it;
\* Mono->RGB->Mono and Mono->RGBA->Mono return the original byte.
C18_MonoConversion ==
    /\ (ConvertedOnce /\ result.type = "Mono") =>
           /\ (2 * input.p.r + 5 * input.p.g + input.p.b) \div 8 <= 255
           /\ result.p = [r |-> (2 * input.p.r + 5 * input.p.g + input.p.b) \div 8]
    /\ (ConvertedBack("Mono", "Rgb") \/ ConvertedBack("Mono", "Rgba")) =>
           result.p = input.p

\* White with alpha 0 became mono 255, the largest value there is.
C18_Witness ==
    /\ ConvertedOnce /\ input.type = "Rgba" /\ result.type = "Mono"
    /\ input.p = [r |-> 255, g |-> 255, b |-> 255, a |-> 0]
    /\ result.p.r = 255

\* C19: RGBA->RGB(RGB->RGBA(p)) = p for every RGB pixel p; for every RGBA
\* pixel q, RGB->RGBA(RGBA->RGB(q)) has the r, g, b of q and alpha 255.
C19_AlphaRemoveAdd ==
    /\ ConvertedBack("Rgb", "Rgba") => result.p = input.p
    /\ ConvertedBack("Rgba", "Rgb") =>
           result.p = [r |-> input.p.r, g |-> input.p.g, b |-> input.p.b,
                       a |-> 255]

\* An RGBA pixel with alpha 77 came back with alpha 255.
C19_Witness ==
    /\ ConvertedBack("Rgba", "Rgb")
    /\ input.p.a = 77
    /\ input.p.r = 1 /\ input.p.g = 200 /\ input.p.b = 254
    /\ result.p.a = 255

\* Every bitmap of the run: the three maps and the mips of the four textures.
MipsIn(tex) == {tex[i] : i \in 1..Len(tex)}

AllBitmaps ==
    {normalmap, glossmap, heightmap}
        \cup MipsIn(normalmapWithMips) \cup MipsIn(glossmapWithMips)
        \cup MipsIn(heightmapWithMips) \cup MipsIn(bumpXWithMips)

\* C20: every bitmap of a run (constructed, copied into a texture mip, or
\* cleared) has pixels.size() = width * height, and reports empty() exactly
\* when its width is 0.
C20_BitmapShape ==
    \A b \in AllBitmaps :
        /\ b.size = b.width * b.height
        /\ BitmapEmpty(b) <=> b.width = 0

\* A run with no height map argument and a gloss map of another size, after
\* all three mipchains were built: the gloss map was cleared, the height map
\* was Bitmap(0, 1), cleared, replaced by the default, copied into mip 0 and
\* cleared again.
C20_Witness ==
    /\ pc = "assemble"
    /\ input.g = "differ" /\ input.hm = "noarg"
    /\ input.w = 16 /\ input.h = 4
    /\ BitmapEmpty(glossmap) /\ BitmapEmpty(heightmap) /\ BitmapEmpty(normalmap)
    /\ heightmapWithMips[1].data
    /\ normalmapWithMips[1].width = 16

\* The normal map is missing, not loadable, or has a side that is no power of
\* two.
NormalNotLoaded == input.n \in {"noarg", "nofile", "noimage"}

SomePow2(v) == \E k \in 0..MaxLog : v = Pow2(k)

NormalBadSize == input.n = "image" /\ (~SomePow2(input.w) \/ ~SomePow2(input.h))

\* No output file was opened: no save step was reached and no file exists.
NoFileOpened ==
    /\ pc \in {"args", "load_normal", "exit"}
    /\ files = <<>>

AuxUnusable(kind) == kind \in {"noarg", "nofile", "noimage", "differ"}

AllPixelsAre(bitmap, v) == \A k \in 1..Len(bitmap.pixels) : bitmap.pixels[k].r = v

HasNormalSize(bitmap) ==
    /\ bitmap.width = input.w
    /\ bitmap.height = input.h
    /\ Len(bitmap.pixels) = input.w * input.h

\* C22: a gloss or height map that is not given, cannot be loaded or has
\* another size never ends the run: loading goes on to the mipchains and the
\* mipchains to the assembly; such a gloss map is empty as an absent one is and
\* no gloss mipchain is built (the gloss texture keeps its constructor's
\* zeroes); such a height map is replaced by a constant-128 bitmap of the
\* normal map's size, which becomes height mip 0.
C22_AuxiliaryRecovered ==
    [][/\ (pc = "px_load" /\ (AuxUnusable(input.g) \/ AuxUnusable(input.hm))) =>
              pc' = "px_mips"
       /\ (pc = "px_load" /\ AuxUnusable(input.g)) =>
              glossmap' = ClearPx(glossmap')
       /\ (pc = "px_load" /\ AuxUnusable(input.hm)) =>
              HasNormalSize(heightmap') /\ AllPixelsAre(heightmap', 128)
       /\ (pc = "px_mips" /\ (AuxUnusable(input.g) \/ AuxUnusable(input.hm))) =>
              pc' = "px_assemble"
       /\ (pc = "px_mips" /\ AuxUnusable(input.g)) =>
              \A i \in 1..Len(glossmapWithMips') :
                  AllPixelsAre(glossmapWithMips'[i], 0)
       /\ (pc = "px_mips" /\ AuxUnusable(input.hm)) =>
              /\ HasNormalSize(heightmapWithMips'[1])
              /\ AllPixelsAre(heightmapWithMips'[1], 128)
      ]_vars

\* A run whose height map has another size and whose gloss map names no file,
\* after the mipchains: height mip 0 is 8 x 4 and all 128.
C22_Witness ==
    /\ pc = "px_assemble"
    /\ input.hm = "differ" /\ input.g = "nofile"
    /\ input.w = 8 /\ input.h = 4
    /\ heightmapWithMips[1].width = 8
    /\ heightmapWithMips[1].pixels[32].r = 128
    /\ glossmapWithMips[1].pixels[1].r = 0

\* Some file of the run was opened but not fully written.
ShortFile == \E f \in 1..Len(files) : files[f].stored < files[f].length

\* C23 as stated: if a DDS file cannot be fully written (a write of the
\* signature, the header or a mip payload fails), the driver exits with a
\* non-zero status.
C23_AsStated == (pc = "exit" /\ ShortFile) => exitCode # 0

\* The stage a position of Main belongs to: 1 the mipchains, 2 the assembly,
\* 3 the bump encoding, 4 the residual, 5 the bump# encoding, 6 and 7 the two
\* files; 0 before the pipeline and after the run.
StageOf(p) ==
    CASE p \in {"tex_normal", "mip_normal", "tex_gloss", "mip_gloss",
                "tex_height", "mip_height"} -> 1
      [] p = "assemble" -> 2
      [] p = "compress" -> 3
      [] p = "residual" -> 4
      [] p = "compress_x" -> 5
      [] p = "save_bump" -> 6
      [] p = "save_bump_x" -> 7
      [] OTHER -> 0

AllBuilt(tex) == \A i \in 1..Len(tex) : tex[i].data

AllEncoded(compressed) ==
    /\ Len(compressed) = Len(normalmapWithMips)
    /\ Len(compressed) > 0

\* C24: in every run that reaches the pipeline the stages follow one another
\* in the order mipchains, assembly, bump encoding, residual, bump# encoding,
\* bump file, bump# file, none is skipped or repeated and the run ends only
\* from the last two; the assembly starts with every mipchain built, the
\* residual with every bump mip encoded, and a file is written only when both
\* textures are encoded for all mips.
C24_StageOrder ==
    [][/\ (StageOf(pc') >= 1 /\ pc' # pc) => StageOf(pc') = StageOf(pc) + 1
                                              \/ StageOf(pc') = StageOf(pc)
       /\ (StageOf(pc) \in 1..5 /\ StageOf(pc') = 0) => pc' = "undefined"
       /\ (StageOf(pc') = 2 /\ StageOf(pc) = 1) =>
              /\ AllBuilt(normalmapWithMips')
              /\ AllBuilt(heightmapWithMips')
              /\ input.g = "same" => AllBuilt(glossmapWithMips')
       /\ (StageOf(pc') = 4 /\ StageOf(pc) = 3) =>
              AllEncoded(normalmapWithMipsCompressed')
       /\ files' # files =>
              /\ AllEncoded(normalmapWithMipsCompressed)
              /\ AllEncoded(bumpXMipsCompressed)
              /\ Len(bumpXWithMips) = Len(normalmapWithMips)
      ]_vars

\* A 16 x 16 run with a gloss map went through every stage and wrote both files.
C24_Witness ==
    /\ pc = "exit" /\ exitCode = 0
    /\ input.w = 16 /\ input.h = 16 /\ input.g = "same"
    /\ Len(files) = 2
    /\ Len(calls) = 9
    /\ Len(bumpXMipsCompressed) = 4

\* The files opened so far, in the order of their opening.
BumpFirst ==
    /\ Len(files) <= 2
    /\ Len(files) >= 1 => files[1].name = "_bump.dds"
    /\ Len(files) = 2 => files[2].name = "_bump#.dds"

\* What each save step does when SaveAsDDS reports failure, or success.
SaveSteps ==
    /\ (pc = "save_bump" /\ files' = files) =>
           /\ pc' = "exit" /\ exitCode' = -1
           /\ files' = <<>>
    /\ (pc = "save_bump" /\ files' # files) =>
           pc' = "save_bump_x" /\ Len(files') = 1
    /\ (pc = "save_bump_x" /\ files' = files) =>
           /\ pc' = "exit" /\ exitCode' = -1
           /\ Len(files') = 1 /\ files'[1].name = "_bump.dds"
    /\ (pc = "save_bump_x" /\ files' # files) =>
           /\ pc' = "exit" /\ exitCode' = 0
           /\ Len(files') = 2 /\ files'[1] = files[1]

BlockAligned(bmp) ==
    /\ bmp.width >= 4 /\ bmp.width % 4 = 0
    /\ bmp.height >= 4 /\ bmp.height % 4 = 0

\* C26 as stated: for every normal map that passes validation the pyramid has
\* at least one mip and every mip handed to an encoder or to the decoder has
\* sides >= 4 and divisible by 4, so no block loop leaves its buffers (the run
\* never has undefined behaviour).
C26_AsStated ==
    /\ pc # "undefined"
    /\ StageOf(pc) >= 2 => Len(normalmapWithMips) >= 1
    /\ pc \in {"compress", "residual", "compress_x"} =>
           \A i \in 1..Len(normalmapWithMips) : BlockAligned(normalmapWithMips[i])

\* The encoder the claim gives for the -q argument of the run.
EncoderAsClaimed ==
    LET tier == IF input.q.given THEN input.q.value ELSE 2
    IN  CASE tier = 0 -> "STB"
          [] tier = 1 -> "Squish"
          [] OTHER -> "RGBCX"

\* C27: the tier is 2 when -q is not given; tier 0 selects the STB encoder,
\* tier 1 Squish, tier 2 or any other integer RGBCX; the bump and the bump#
\* textures of a run are encoded with the same tier for every mip.
C27_QualityTier ==
    /\ \A i \in 1..Len(normalmapWithMipsCompressed) :
           normalmapWithMipsCompressed[i].encoder = EncoderAsClaimed
    /\ \A i \in 1..Len(bumpXMipsCompressed) :
           bumpXMipsCompressed[i].encoder = EncoderAsClaimed

\* A run without -q encoded the four mips of both textures with RGBCX.
C27_Witness ==
    /\ ~input.q.given
    /\ Len(normalmapWithMipsCompressed) = 4 /\ Len(bumpXMipsCompressed) = 4
    /\ normalmapWithMipsCompressed[4].encoder = "RGBCX"
    /\ bumpXMipsCompressed[1].encoder = "RGBCX"

\* Two pyramids with the same number of mips and the same sides at every mip,
\* each mip holding width * height pixels.
SameShape(a, b) ==
    /\ Len(a) = Len(b)
    /\ \A i \in 1..Len(a) :
           /\ a[i].width = b[i].width
           /\ a[i].height = b[i].height
           /\ a[i].size = a[i].width * a[i].height
           /\ b[i].size = a[i].size

\* C28: at every stage the normal, gloss, height and bump# pyramids have the
\* same number of mips and the same width and height at every mip, also when
\* the gloss map is absent or the height map synthesized: from the assembly on
\* for gloss and height, from the bump# encoding on for bump#, and as soon as
\* each is constructed; both files carry the same (W, H, N), those of the
\* normal pyramid.
C28_SamePyramids ==
    /\ \A t \in {glossmapWithMips, heightmapWithMips, bumpXWithMips} :
           t # NoTexture => SameShape(t, normalmapWithMips)
    /\ (StageOf(pc) >= 2 \/ files # <<>>) =>
           /\ Len(normalmapWithMips) >= 1
           /\ SameShape(glossmapWithMips, normalmapWithMips)
           /\ SameShape(heightmapWithMips, normalmapWithMips)
    /\ (StageOf(pc) >= 5 \/ files # <<>>) =>
           SameShape(bumpXWithMips, normalmapWithMips)
    /\ \A f \in 1..Len(files) :
           /\ files[f].header.dwWidth = normalmapWithMips[1].width
           /\ files[f].header.dwHeight = normalmapWithMips[1].height
           /\ files[f].header.dwMipMapCount = Len(normalmapWithMips)
           /\ files[f].header = files[1].header

\* A 32 x 8 run with a gloss map of another size and no height map wrote both
\* files: four pyramids of 5 mips, the last 4 x 4.
C28_Witness ==
    /\ Len(files) = 2
    /\ input.w = 32 /\ input.h = 8
    /\ input.g = "differ" /\ input.hm = "noarg"
    /\ Len(glossmapWithMips) = 5 /\ Len(bumpXWithMips) = 5
    /\ glossmapWithMips[1].width = 32 /\ heightmapWithMips[1].height = 8
    /\ bumpXWithMips[5].width = 4 /\ bumpXWithMips[5].height = 4

Decompressed == pc = "fn_done" /\ input.op = "decompress"

\* The block the claim gives pixel (x, y) of a bitmap w wide.
BlockOfPixel(w, x, y) == (y \div 4) * (w \div 4) + (x \div 4)

\* The byte offsets of channel c of the 4 x 4 square of block b.
SquareOffsets(w, b, channels) ==
    {((4 * (b \div (w \div 4)) + j) * w + 4 * (b % (w \div 4)) + i) * 4 + c :
        i \in 0..3, j \in 0..3, c \in channels}

StoresFrom(from) ==
    {result.stores[n].off :
        n \in {m \in 1..Len(result.stores) : result.stores[m].from = from}}

\* C29: DecompressBC3_MY on a w x h bitmap (multiples of 4) consumes exactly
\* (w/4)*(h/4)*16 input bytes and stores each channel of every pixel exactly
\* once; block b, row-major, covers the square at (4*(b mod (w/4)),
\* 4*(b div (w/4))); its first 8 bytes write only channel a there and its last
\* 8 bytes only r, g and b; every pixel ends with the alpha and colour of its
\* block.
C29_DecompressFrame ==
    Decompressed =>
        /\ result.consumed = (input.w \div 4) * (input.h \div 4) * 16
        /\ Len(result.stores) = 4 * input.w * input.h
        /\ \A o \in 0..(4 * input.w * input.h - 1) :
               \E n \in 1..Len(result.stores) : result.stores[n].off = o
        /\ \A b \in 0..((input.w \div 4) * (input.h \div 4) - 1) :
               /\ StoresFrom(16 * b) = SquareOffsets(input.w, b, {3})
               /\ StoresFrom(16 * b + 8) = SquareOffsets(input.w, b, {0, 1, 2})
        /\ \A x \in 0..(input.w - 1), y \in 0..(input.h - 1) :
               \A b \in {BlockOfPixel(input.w, x, y)} :
                   result.pixels[y * input.w + x + 1]
                       = [r |-> Expanded(Color565(b + 1))[1],
                          g |-> Expanded(Color565(b + 1))[2],
                          b |-> Expanded(Color565(b + 1))[3],
                          a |-> 10 + b]

\* A 12 x 8 bitmap of six blocks: block 4 (second row, middle) gave pixel
\* (5, 6) its alpha 14, and 96 input bytes were consumed.
C29_Witness ==
    /\ Decompressed
    /\ input.w = 12 /\ input.h = 8
    /\ result.consumed = 96
    /\ result.pixels[6 * 12 + 5 + 1].a = 14
    /\ Len(result.stores) = 384

Normalized == pc = "fn_done" /\ input.op = "normalize"

\* C30: for every 8-bit pixel the unpacked vector (2r-255, 2g-255, 2b-255)/255
\* has non-zero length, each component being an odd integer over 255, so the
\* reciprocal of the length is never a division by zero; each repacked channel
\* is within 0..255 when it is narrowed to a byte.
C30_NonZeroLength ==
    Normalized =>
        /\ \A c \in {input.r, input.g, input.b} : (2 * c - 255) % 2 = 1
        /\ result.lengthSquared
               = (2 * input.r - 255) * (2 * input.r - 255)
                   + (2 * input.g - 255) * (2 * input.g - 255)
                   + (2 * input.b - 255) * (2 * input.b - 255)
        /\ result.lengthSquared > 0
        /\ result.pixel.r \in 0..255
        /\ result.pixel.g \in 0..255
        /\ result.pixel.b \in 0..255

\* The pixel nearest to the zero vector, (128, 128, 127): its unpacked
\* components are 1, 1, -1 over 255 and it is repacked to the ends of the range.
C30_Witness ==
    /\ Normalized
    /\ input.r = 128 /\ input.g = 128 /\ input.b = 127
    /\ result.lengthSquared = 3
    /\ result.pixel.r > 127 /\ result.pixel.b < 128

====
